---- MODULE Spec2Model ----
(***************************************************************************)
(* A model of shared_core's ResourceGovernor (resource_governor.rs): the   *)
(* admission gate (acquire_permit), the pause controller, the resource     *)
(* trackers, the statistics counters and the I/O throttle.                 *)
(*                                                                         *)
(* acquire_permit is an async fn; each caller is a task whose position in  *)
(* the function is pc[t].  One action is one atomic step of the code (an   *)
(* atomic load/store/fetch_add, a poll of an awaited future, the drop of   *)
(* a value).  tokio's Semaphore and Notify are modelled by what they do:   *)
(* a FIFO queue of waiters that released units are handed to, and a set    *)
(* of registered Notified futures that notify_waiters() completes.         *)
(***************************************************************************)
EXTENDS Integers, Sequences, FiniteSets

(* ------------------------------ bounds --------------------------------- *)

\* Number of tasks calling acquire_permit concurrently.
NumCallers == 2

\* Total number of acquire_permit calls started between two resets.
MaxCalls == 2

\* Width of the modelled RAM counter: ram_usage_bytes wraps modulo this
\* (the code's counter is an AtomicU64 and wraps modulo 2^64).
RamModulus == 3

\* Number of tasks calling throttle_io concurrently.
NumIoCallers == 2

\* Most bytes the RAM tracker on its own is reported as allocated, and as
\* deallocated.
MaxRamTotal == 10

\* Width in bits of the model's usize (max_concurrent_operations, semaphore
\* permits).
UsizeBits == 4

\* usize::MAX
UsizeMax == 2^UsizeBits - 1

\* GovernorRng values handed out by get_rng().
NumRngs == 2

\* Words drawn from one GovernorRng.
MaxDraws == 2

\* Values of one drawn word (the model's u64).
RngWords == 2

\* Width in bits of the model's nonce counter (the code's is a u64).
CounterBits == 2

\* Tasks calling into one PluginRegistry at the same time.
NumTasks == 2

\* Plugin ids, and plugin objects with the same id.
NumPluginIds == 2

NumPluginObjects == 2

\* Clock ticks in one second (the length of the I/O window).
Second == 2

\* Last clock tick of the model.
MaxTime == 5

(* --------------------------- configuration ----------------------------- *)

\* Option::None of the three optional limits.
None == -1

Callers == 1..NumCallers

\* The GovernorRng values the model hands out.
Rngs == 1..NumRngs

\* No GovernorRng handed out yet.
NoRng == [kind |-> "none"]

\* No decrypt call made yet.
NoDecrypt == [result |-> "none"]

\* The plugin ids the model uses, and the plugin objects carrying each id.
PluginIds == 1..NumPluginIds

PluginObjects == 1..NumPluginObjects

\* An id absent from PluginRegistry::plugins, and from PluginRegistry::states.
NoPlugin == 0

NoState == "None"

\* The plugin id the concurrent calls are made on.
RegistryIds == {1}

\* The plugin object the concurrent calls register.
RegistryObjects == {1}

\* The tasks calling into clones of one PluginRegistry.
Tasks == 1..NumTasks

\* A task that is in no registry call.
NoCall == [op |-> "none"]

\* The two RwLocks of a PluginRegistry, and an RwLock nobody holds or
\* waits for.
LockNames == {"plugins", "states"}

Unlocked == [writer |-> 0, readers |-> {}, queue |-> <<>>]

IoCallers == 1..NumIoCallers

\* update_cpu_usage takes a u8; these are the values the model reports.
CpuInputs == {0, 255}

\* Byte counts reported to track_ram_allocation / track_ram_deallocation.
RamInputs == {1}

\* The configurations the model constructs admission governors from; the
\* last two are invalid and are rejected by validate().
AdmissionConfigs ==
    { [cpu_cap_percent |-> 50, ram_cap_bytes |-> 1, io_ops_per_second |-> None,
       max_concurrent_operations |-> 1],
      [cpu_cap_percent |-> 150, ram_cap_bytes |-> None, io_ops_per_second |-> None,
       max_concurrent_operations |-> 1],
      [cpu_cap_percent |-> 50, ram_cap_bytes |-> 1, io_ops_per_second |-> None,
       max_concurrent_operations |-> 0] }

\* The configurations the model constructs I/O-throttling governors from: no
\* limit, a limit of 1 and a limit of 2 operations per second.
IoConfigs ==
    { [cpu_cap_percent |-> None, ram_cap_bytes |-> None, io_ops_per_second |-> l,
       max_concurrent_operations |-> 1] : l \in {None, 1, 2} }

\* ResourceGovernorConfig::validate: Ok iff the CPU cap, when present, is at
\* most 100 and max_concurrent_operations is not 0.
Validate(cfg) ==
    /\ ~(cfg.cpu_cap_percent # None /\ cfg.cpu_cap_percent > 100)
    /\ ~(cfg.max_concurrent_operations = 0)

(* ------------------------------- state --------------------------------- *)

VARIABLES
    config,               \* ResourceGovernorConfig of the governor
    cpu_usage_percent,    \* AtomicU64
    ram_usage_bytes,      \* AtomicU64 (modulo RamModulus)
    io_ops_count,         \* AtomicU64
    io_window_start,      \* RwLock<Instant>: the instant, in ticks
    io_lock,              \* holder of io_window_start's write lock, 0 if free
    permits,              \* operation_semaphore: units available
    sem_waiters,          \* operation_semaphore: FIFO queue of waiting callers
    holders,              \* callers in acquire_permit owning a capacity unit
    outstanding,          \* OperationPermits returned to callers and not dropped
    sem_closed,           \* operation_semaphore: closed, acquisitions refused
    is_paused,            \* AtomicBool
    pause_waiters,        \* pause_notify: registered Notified futures
    woken,                \* callers whose Notified future has been completed
    total_operations,     \* AtomicU64
    throttled_operations, \* AtomicU64
    pc,                   \* position of each caller in acquire_permit
    resume_pc,            \* position of the task calling resume()
    reset_pc,             \* position of the task calling reset_statistics()
    iopc,                 \* position of each caller in throttle_io
    elapsed,              \* throttle_io's local `elapsed`, per caller
    wake_at,              \* deadline of throttle_io's sleep, per caller
    now,                  \* the clock (Instant::now()), in ticks
    ioSlept,              \* history: the throttle_io call slept
    fastInWindow,         \* history: calls completed without sleeping since
                          \* io_window_start was last set
    lastWasPause,         \* history: the latest pause()/resume() was pause()
    lastCpuReport,        \* history: the latest update_cpu_usage argument
    ramAllocated,         \* history: sum of the bytes reported as allocated
    ramDeallocated,       \* history: sum of the bytes reported as deallocated
    ramInRange,           \* history: no running total has left [0, 2^64)
    newResult,            \* what ResourceGovernor::new returned
    rng,                  \* the GovernorRng values handed out by get_rng()
    rngOut,               \* the words drawn from each GovernorRng so far
    seal_counter,         \* EncryptionKey: Counter of sealing_key
    open_counter,         \* EncryptionKey: Counter of opening_key
    sealed,               \* history: the ciphertexts encrypt returned, in order
    lastDecrypt,          \* the latest decrypt call and its result
    plugins,              \* PluginRegistry::plugins: id -> plugin, or NoPlugin
    states,               \* PluginRegistry::states: id -> PluginState, or NoState
    lastOk,               \* history: latest successful lifecycle call per id
    lastCall,             \* history: the latest registry call and its result
    initialized,          \* history: initialize() of the plugin registered
                          \* under the id has returned Ok since register
    rpc,                  \* position of each task in its registry call
    call,                 \* the registry call each task is making
    callResult,           \* what each task's latest registry call returned
    locks,                \* the RwLocks of plugins and of states
    startMode,            \* history: how the call started w.r.t. pause
    throttledCall,        \* history: the call was CPU-throttled
    callsSinceReset       \* history: acquire_permit calls started since reset

govVars == <<cpu_usage_percent, ram_usage_bytes, is_paused, total_operations,
             throttled_operations>>

semVars == <<permits, sem_waiters, holders, outstanding, sem_closed>>

notifyVars == <<pause_waiters, woken>>

ioVars == <<io_ops_count, io_window_start, io_lock, iopc, elapsed, wake_at, now,
            ioSlept, fastInWindow>>

histVars == <<startMode, throttledCall, callsSinceReset>>

\* The sums of the RAM reports; they are recorded by the specification of
\* the RAM tracker (ReportAllocation, ReportDeallocation).
ramHist == <<ramAllocated, ramDeallocated, ramInRange>>

\* State outside the governor's fields.
rngVars == <<rng, rngOut>>

cryptoVars == <<seal_counter, open_counter, sealed, lastDecrypt>>

pluginVars == <<plugins, states, lastOk, lastCall, initialized>>

taskVars == <<rpc, call, callResult, locks>>

sideVars == <<newResult, rngVars, cryptoVars, pluginVars, taskVars>>

auxVars == <<lastWasPause, lastCpuReport, ramHist, sideVars>>

vars == <<config, govVars, semVars, notifyVars, ioVars, histVars, auxVars, pc,
          resume_pc, reset_pc>>

\* The fields of the governor and the positions of its callers.
governorVars == <<config, govVars, semVars, notifyVars, ioVars, histVars,
                  lastWasPause, lastCpuReport, ramHist, pc, resume_pc, reset_pc>>

(* ---------------------------- construction ----------------------------- *)

\* The state outside the governor at the start: no GovernorRng handed out,
\* an EncryptionKey as from_bytes returns it, both counters at 0, and a
\* PluginRegistry as new() returns it, both maps empty.
Outside ==
    /\ plugins = [id \in PluginIds |-> NoPlugin]
    /\ states = [id \in PluginIds |-> NoState]
    /\ lastOk = [id \in PluginIds |-> "none"]
    /\ lastCall = [op |-> "none"]
    /\ initialized = [id \in PluginIds |-> FALSE]
    /\ rpc = [t \in Tasks |-> "idle"]
    /\ call = [t \in Tasks |-> NoCall]
    /\ callResult = [t \in Tasks |-> "none"]
    /\ locks = [l \in LockNames |-> Unlocked]
    /\ rng = [h \in Rngs |-> NoRng]
    /\ rngOut = [h \in Rngs |-> <<>>]
    /\ seal_counter = 0
    /\ open_counter = 0
    /\ sealed = <<>>
    /\ lastDecrypt = NoDecrypt

\* tokio's Semaphore::new(permits) returns a semaphore for up to
\* Semaphore::MAX_PERMITS (usize::MAX >> 3) permits and panics above that.
SemaphoreNewPanics(n) == n > UsizeMax \div 8

\* What ResourceGovernor::new(cfg) comes to: the Config error of validate(),
\* the panic of Semaphore::new, or Ok with the governor.
NewOutcome(cfg) ==
    IF ~Validate(cfg) THEN "Config"
    ELSE IF SemaphoreNewPanics(cfg.max_concurrent_operations) THEN "panic"
    ELSE "Ok"

\* The fields of the governor that ResourceGovernor::new(cfg) builds, and
\* the callers before their first call; the semaphore starts with
\* max_concurrent_operations units.
Fields(cfg) ==
    /\ config = cfg
    /\ cpu_usage_percent = 0
    /\ ram_usage_bytes = 0
    /\ io_ops_count = 0
    /\ io_window_start = 0
    /\ io_lock = 0
    /\ permits = cfg.max_concurrent_operations
    /\ sem_waiters = <<>>
    /\ holders = {}
    /\ outstanding = 0
    /\ sem_closed = FALSE
    /\ is_paused = FALSE
    /\ pause_waiters = {}
    /\ woken = {}
    /\ total_operations = 0
    /\ throttled_operations = 0
    /\ pc = [t \in Callers |-> "idle"]
    /\ resume_pc = "idle"
    /\ reset_pc = "idle"
    /\ iopc = [t \in IoCallers |-> "idle"]
    /\ elapsed = [t \in IoCallers |-> 0]
    /\ wake_at = [t \in IoCallers |-> 0]
    /\ now = 0
    /\ ioSlept = [t \in IoCallers |-> FALSE]
    /\ fastInWindow = 0
    /\ lastWasPause = FALSE
    /\ ramAllocated = 0
    /\ ramDeallocated = 0
    /\ ramInRange = TRUE
    /\ lastCpuReport = 0
    /\ startMode = [t \in Callers |-> "running"]
    /\ throttledCall = [t \in Callers |-> FALSE]
    /\ callsSinceReset = 0
    /\ Outside

\* ResourceGovernor::new returning Ok: the configuration is valid and the
\* shared state is built.
New(cfg) ==
    /\ Validate(cfg)
    /\ NewOutcome(cfg) = "Ok"
    /\ Fields(cfg)
    /\ newResult = "Ok"

Init == \E cfg \in AdmissionConfigs : New(cfg)

(* ------------------------- semaphore and notify ------------------------ *)

RemoveFrom(q, t) == SelectSeq(q, LAMBDA x : x # t)

\* Drop of an OwnedSemaphorePermit: the unit goes to the first queued waiter
\* if there is one, and back to the semaphore's counter otherwise.  `from`
\* is the set of in-flight callers giving the unit up (empty when the unit
\* comes from an OperationPermit already handed to its caller).
ReleaseUnit(from) ==
    IF sem_waiters = <<>>
    THEN /\ permits' = permits + 1
         /\ holders' = holders \ from
         /\ UNCHANGED sem_waiters
    ELSE /\ holders' = (holders \ from) \cup {Head(sem_waiters)}
         /\ sem_waiters' = Tail(sem_waiters)
         /\ UNCHANGED permits

\* Mutant of CpuOverCap: a usage equal to the cap throttles as well.
CpuOverCapInclusive(cfg, cpu) == cfg.cpu_cap_percent # None /\ cpu >= cfg.cpu_cap_percent

\* if current_cpu > u64::from(cpu_cap), for a configured cap
CpuOverCap(cfg, cpu) == cfg.cpu_cap_percent # None /\ cpu > cfg.cpu_cap_percent

\* Mutant of RamOverCap: the comparison is inverted.
RamOverCapInverted(cfg, ram) == cfg.ram_cap_bytes # None /\ ram < cfg.ram_cap_bytes

\* if current_ram > ram_cap, for a configured cap
RamOverCap(cfg, ram) == cfg.ram_cap_bytes # None /\ ram > cfg.ram_cap_bytes

\* Mutant of ClampPercent: the reported value is stored as it is.
ClampPercentNone(percent) == percent

\* percent.min(100)
ClampPercent(percent) == IF percent < 100 THEN percent ELSE 100

(* ---------------------------- acquire_permit --------------------------- *)

\* Mutant of Start: the attempt is not counted.
StartNoCount(t) ==
    /\ pc[t] = "idle"
    /\ callsSinceReset < MaxCalls
    /\ callsSinceReset' = callsSinceReset + 1
    /\ startMode' = [startMode EXCEPT ![t] = IF is_paused THEN "paused" ELSE "running"]
    /\ pc' = [pc EXCEPT ![t] = "pause_check"]
    /\ UNCHANGED <<config, auxVars, govVars, semVars, notifyVars, ioVars,
                   throttledCall, resume_pc, reset_pc>>

\* self.total_operations.fetch_add(1)
Start(t) ==
    /\ pc[t] = "idle"
    /\ callsSinceReset < MaxCalls
    /\ total_operations' = total_operations + 1
    /\ callsSinceReset' = callsSinceReset + 1
    /\ startMode' = [startMode EXCEPT ![t] = IF is_paused THEN "paused" ELSE "running"]
    /\ pc' = [pc EXCEPT ![t] = "pause_check"]
    /\ UNCHANGED <<config, auxVars, cpu_usage_percent, ram_usage_bytes, is_paused,
                   throttled_operations, semVars, notifyVars, ioVars,
                   throttledCall, resume_pc, reset_pc>>

\* Mutant of PauseLoad: the pause flag is ignored.
PauseLoadNoWait(t) ==
    /\ pc[t] = "pause_check"
    /\ pc' = [pc EXCEPT ![t] = "acquire"]
    /\ UNCHANGED <<config, auxVars, govVars, semVars, notifyVars, ioVars, histVars,
                   resume_pc, reset_pc>>

\* while self.is_paused.load(): the load of the loop condition
PauseLoad(t) ==
    /\ pc[t] = "pause_check"
    /\ pc' = [pc EXCEPT ![t] = IF is_paused THEN "pause_register" ELSE "acquire"]
    /\ UNCHANGED <<config, auxVars, govVars, semVars, notifyVars, ioVars, histVars,
                   resume_pc, reset_pc>>

\* self.pause_notify.notified(): the Notified future is created, and from
\* here on a notify_waiters() completes it
PauseRegister(t) ==
    /\ pc[t] = "pause_register"
    /\ pause_waiters' = pause_waiters \cup {t}
    /\ pc' = [pc EXCEPT ![t] = "pause_wait"]
    /\ UNCHANGED <<config, auxVars, govVars, semVars, woken, ioVars, histVars,
                   resume_pc, reset_pc>>

\* Mutant of PauseWake: an `if` in place of the `while`, the flag is not
\* checked again after the wake-up.
PauseWakeNoRecheck(t) ==
    /\ pc[t] = "pause_wait"
    /\ t \in woken
    /\ woken' = woken \ {t}
    /\ pc' = [pc EXCEPT ![t] = "acquire"]
    /\ UNCHANGED <<config, auxVars, govVars, semVars, pause_waiters, ioVars, histVars,
                   resume_pc, reset_pc>>

\* .await of the Notified future returns; the loop condition is next
PauseWake(t) ==
    /\ pc[t] = "pause_wait"
    /\ t \in woken
    /\ woken' = woken \ {t}
    /\ pc' = [pc EXCEPT ![t] = "pause_check"]
    /\ UNCHANGED <<config, auxVars, govVars, semVars, pause_waiters, ioVars, histVars,
                   resume_pc, reset_pc>>

\* Mutant of AcquireCapacity: the RAM cap is looked at before the capacity
\* unit is asked for, and a call over the cap is rejected without waiting.
AcquireCapacityRamFirst(t) ==
    /\ pc[t] = "acquire"
    /\ IF RamOverCap(config, ram_usage_bytes)
       THEN /\ pc' = [pc EXCEPT ![t] = "rejected"]
            /\ UNCHANGED <<permits, sem_waiters, holders>>
       ELSE IF permits > 0
       THEN /\ permits' = permits - 1
            /\ holders' = holders \cup {t}
            /\ pc' = [pc EXCEPT ![t] = "cpu_check"]
            /\ UNCHANGED sem_waiters
       ELSE /\ sem_waiters' = Append(sem_waiters, t)
            /\ pc' = [pc EXCEPT ![t] = "sem_wait"]
            /\ UNCHANGED <<permits, holders>>
    /\ UNCHANGED <<config, auxVars, govVars, outstanding, sem_closed, notifyVars, ioVars, histVars,
                   resume_pc, reset_pc>>

\* Mutant of AcquireCapacity: a unit is taken when none is left.
AcquireCapacityOffByOne(t) ==
    /\ pc[t] = "acquire"
    /\ IF permits >= 0
       THEN /\ permits' = permits - 1
            /\ holders' = holders \cup {t}
            /\ pc' = [pc EXCEPT ![t] = "cpu_check"]
            /\ UNCHANGED sem_waiters
       ELSE /\ sem_waiters' = Append(sem_waiters, t)
            /\ pc' = [pc EXCEPT ![t] = "sem_wait"]
            /\ UNCHANGED <<permits, holders>>
    /\ UNCHANGED <<config, auxVars, govVars, outstanding, sem_closed, notifyVars, ioVars, histVars,
                   resume_pc, reset_pc>>

\* operation_semaphore.clone().acquire_owned(): first poll.  A closed
\* semaphore refuses, and the call returns Err(Concurrency); a free unit is
\* taken at once; otherwise the caller joins the queue.
AcquireCapacity(t) ==
    /\ pc[t] = "acquire"
    /\ IF sem_closed
       THEN /\ pc' = [pc EXCEPT ![t] = "failed"]
            /\ UNCHANGED <<permits, sem_waiters, holders>>
       ELSE IF permits > 0
       THEN /\ permits' = permits - 1
            /\ holders' = holders \cup {t}
            /\ pc' = [pc EXCEPT ![t] = "cpu_check"]
            /\ UNCHANGED sem_waiters
       ELSE /\ sem_waiters' = Append(sem_waiters, t)
            /\ pc' = [pc EXCEPT ![t] = "sem_wait"]
            /\ UNCHANGED <<permits, holders>>
    /\ UNCHANGED <<config, auxVars, govVars, outstanding, sem_closed, notifyVars, ioVars, histVars,
                   resume_pc, reset_pc>>

\* acquire_owned().await returns for a queued caller: with the unit it was
\* handed, or with the AcquireError of a semaphore that has been closed,
\* which the call returns as Err(Concurrency)
SemWake(t) ==
    /\ pc[t] = "sem_wait"
    /\ t \in holders \/ sem_closed
    /\ IF t \in holders
       THEN /\ pc' = [pc EXCEPT ![t] = "cpu_check"]
            /\ UNCHANGED sem_waiters
       ELSE /\ pc' = [pc EXCEPT ![t] = "failed"]
            /\ sem_waiters' = RemoveFrom(sem_waiters, t)
    /\ UNCHANGED <<config, auxVars, govVars, permits, holders, outstanding,
                   sem_closed, notifyVars, ioVars, histVars, resume_pc, reset_pc>>

\* Mutant of CpuCheck: a throttled call is counted twice.
CpuCheckCountsTwice(t) ==
    /\ pc[t] = "cpu_check"
    /\ IF CpuOverCap(config, cpu_usage_percent)
       THEN /\ throttled_operations' = throttled_operations + 2
            /\ throttledCall' = [throttledCall EXCEPT ![t] = TRUE]
            /\ pc' = [pc EXCEPT ![t] = "backoff"]
       ELSE /\ pc' = [pc EXCEPT ![t] = "ram_check"]
            /\ UNCHANGED <<throttled_operations, throttledCall>>
    /\ UNCHANGED <<config, auxVars, cpu_usage_percent, ram_usage_bytes, is_paused,
                   total_operations, semVars, notifyVars, ioVars, startMode,
                   callsSinceReset, resume_pc, reset_pc>>

\* Check CPU throttling: over the cap, count the throttle and start the
\* 10 ms sleep
CpuCheck(t) ==
    /\ pc[t] = "cpu_check"
    /\ IF CpuOverCap(config, cpu_usage_percent)
       THEN /\ throttled_operations' = throttled_operations + 1
            /\ throttledCall' = [throttledCall EXCEPT ![t] = TRUE]
            /\ pc' = [pc EXCEPT ![t] = "backoff"]
       ELSE /\ pc' = [pc EXCEPT ![t] = "ram_check"]
            /\ UNCHANGED <<throttled_operations, throttledCall>>
    /\ UNCHANGED <<config, auxVars, cpu_usage_percent, ram_usage_bytes, is_paused,
                   total_operations, semVars, notifyVars, ioVars, startMode,
                   callsSinceReset, resume_pc, reset_pc>>

\* Mutant of BackoffDone: the CPU check is retried after the backoff.
BackoffDoneRecheck(t) ==
    /\ pc[t] = "backoff"
    /\ pc' = [pc EXCEPT ![t] = "cpu_check"]
    /\ UNCHANGED <<config, auxVars, govVars, semVars, notifyVars, ioVars, histVars,
                   resume_pc, reset_pc>>

\* sleep(sleep_duration).await returns
BackoffDone(t) ==
    /\ pc[t] = "backoff"
    /\ pc' = [pc EXCEPT ![t] = "ram_check"]
    /\ UNCHANGED <<config, auxVars, govVars, semVars, notifyVars, ioVars, histVars,
                   resume_pc, reset_pc>>

\* Mutant of RamCheck: the rejection keeps the unit (the permit is leaked).
RamCheckLeak(t) ==
    /\ pc[t] = "ram_check"
    /\ pc' = [pc EXCEPT ![t] = IF RamOverCap(config, ram_usage_bytes)
                                 THEN "rejected" ELSE "granted"]
    /\ UNCHANGED <<config, auxVars, govVars, semVars, notifyVars, ioVars, histVars,
                   resume_pc, reset_pc>>

\* Check RAM limit: over the cap the call returns Err(Validation{ram_usage})
\* and the local `permit` is dropped; otherwise it returns the
\* OperationPermit wrapping the unit.
RamCheck(t) ==
    /\ pc[t] = "ram_check"
    /\ IF RamOverCap(config, ram_usage_bytes)
       THEN /\ ReleaseUnit({t})
            /\ pc' = [pc EXCEPT ![t] = "rejected"]
       ELSE /\ pc' = [pc EXCEPT ![t] = "granted"]
            /\ UNCHANGED <<permits, sem_waiters, holders>>
    /\ UNCHANGED <<config, auxVars, govVars, outstanding, sem_closed, notifyVars, ioVars, histVars,
                   resume_pc, reset_pc>>

\* The caller takes the Ok(OperationPermit) it was returned; the permit
\* lives on in the caller's hands.
TakePermit(t) ==
    /\ pc[t] = "granted"
    /\ holders' = holders \ {t}
    /\ outstanding' = outstanding + 1
    /\ pc' = [pc EXCEPT ![t] = "idle"]
    /\ startMode' = [startMode EXCEPT ![t] = "running"]
    /\ throttledCall' = [throttledCall EXCEPT ![t] = FALSE]
    /\ UNCHANGED <<config, auxVars, govVars, permits, sem_waiters, sem_closed, notifyVars, ioVars,
                   callsSinceReset, resume_pc, reset_pc>>

\* The caller has seen the Err, or the cancellation is complete.
Acknowledge(t) ==
    /\ pc[t] \in {"rejected", "failed", "cancelled"}
    /\ pc' = [pc EXCEPT ![t] = "idle"]
    /\ startMode' = [startMode EXCEPT ![t] = "running"]
    /\ throttledCall' = [throttledCall EXCEPT ![t] = FALSE]
    /\ UNCHANGED <<config, auxVars, govVars, semVars, notifyVars, ioVars,
                   callsSinceReset, resume_pc, reset_pc>>

\* The acquire_permit future is dropped while suspended at
\* pause_notify.notified().await: the Notified future is dropped with it.
CancelPauseWait(t) ==
    /\ pc[t] = "pause_wait"
    /\ pause_waiters' = pause_waiters \ {t}
    /\ woken' = woken \ {t}
    /\ pc' = [pc EXCEPT ![t] = "cancelled"]
    /\ UNCHANGED <<config, auxVars, govVars, semVars, ioVars, histVars, resume_pc, reset_pc>>

\* Mutant of CancelCapacityWait: the dropped future stays in the queue.
CancelCapacityWaitStale(t) ==
    /\ pc[t] = "sem_wait"
    /\ pc' = [pc EXCEPT ![t] = "cancelled"]
    /\ UNCHANGED <<config, auxVars, govVars, semVars, notifyVars, ioVars, histVars,
                   resume_pc, reset_pc>>

\* ... while suspended at acquire_owned().await: the Acquire future leaves
\* the queue, and gives back a unit it was already handed.
CancelCapacityWait(t) ==
    /\ pc[t] = "sem_wait"
    /\ IF t \in holders
       THEN ReleaseUnit({t})
       ELSE /\ sem_waiters' = RemoveFrom(sem_waiters, t)
            /\ UNCHANGED <<permits, holders>>
    /\ pc' = [pc EXCEPT ![t] = "cancelled"]
    /\ UNCHANGED <<config, auxVars, govVars, outstanding, sem_closed, notifyVars, ioVars, histVars,
                   resume_pc, reset_pc>>

\* Mutant of CancelBackoff: a cancelled call takes its throttle count back.
CancelBackoffUncounts(t) ==
    /\ pc[t] = "backoff"
    /\ ReleaseUnit({t})
    /\ throttled_operations' = throttled_operations - 1
    /\ pc' = [pc EXCEPT ![t] = "cancelled"]
    /\ UNCHANGED <<config, auxVars, cpu_usage_percent, ram_usage_bytes, is_paused,
                   total_operations, outstanding, sem_closed, notifyVars, ioVars, histVars,
                   resume_pc, reset_pc>>

\* ... while suspended at sleep(sleep_duration).await: the local `permit`
\* is dropped with the future.
CancelBackoff(t) ==
    /\ pc[t] = "backoff"
    /\ ReleaseUnit({t})
    /\ pc' = [pc EXCEPT ![t] = "cancelled"]
    /\ UNCHANGED <<config, auxVars, govVars, outstanding, sem_closed, notifyVars, ioVars, histVars,
                   resume_pc, reset_pc>>

\* An OperationPermit is dropped by its caller: its _permit field returns
\* the unit.
DropPermit ==
    /\ outstanding > 0
    /\ outstanding' = outstanding - 1
    /\ ReleaseUnit({})
    /\ UNCHANGED <<config, auxVars, govVars, sem_closed, notifyVars, ioVars, histVars, pc,
                   resume_pc, reset_pc>>

(* ---------------------------- pause / resume --------------------------- *)

\* Mutant of Pause: pausing also takes the free capacity away.
PauseDrains ==
    /\ is_paused' = TRUE
    /\ lastWasPause' = TRUE
    /\ permits' = 0
    /\ UNCHANGED <<config, lastCpuReport, ramHist, sideVars, cpu_usage_percent, ram_usage_bytes, total_operations,
                   throttled_operations, sem_waiters, holders, outstanding, sem_closed, notifyVars,
                   ioVars, histVars, pc, resume_pc, reset_pc>>

\* Mutant of Pause: pause() flips the flag.
PauseToggle ==
    /\ is_paused' = ~is_paused
    /\ lastWasPause' = TRUE
    /\ UNCHANGED <<config, lastCpuReport, ramHist, sideVars, cpu_usage_percent, ram_usage_bytes, total_operations,
                   throttled_operations, semVars, notifyVars, ioVars, histVars,
                   pc, resume_pc, reset_pc>>

\* Mutant of Pause: pausing closes the capacity source.
PauseCloses ==
    /\ is_paused' = TRUE
    /\ lastWasPause' = TRUE
    /\ sem_closed' = TRUE
    /\ UNCHANGED <<config, lastCpuReport, ramHist, sideVars, cpu_usage_percent,
                   ram_usage_bytes, total_operations, throttled_operations,
                   permits, sem_waiters, holders, outstanding, notifyVars,
                   ioVars, histVars, pc, resume_pc, reset_pc>>

\* pause(): self.is_paused.store(true)
Pause ==
    /\ is_paused' = TRUE
    /\ lastWasPause' = TRUE
    /\ UNCHANGED <<config, lastCpuReport, ramHist, sideVars, cpu_usage_percent, ram_usage_bytes, total_operations,
                   throttled_operations, semVars, notifyVars, ioVars, histVars,
                   pc, resume_pc, reset_pc>>

\* resume(): self.is_paused.store(false)
ResumeStore ==
    /\ resume_pc = "idle"
    /\ is_paused' = FALSE
    /\ resume_pc' = "notify"
    /\ startMode' = [t \in Callers |->
                        IF startMode[t] = "paused" THEN "resumed" ELSE startMode[t]]
    /\ lastWasPause' = FALSE
    /\ UNCHANGED <<config, lastCpuReport, ramHist, sideVars, cpu_usage_percent, ram_usage_bytes, total_operations,
                   throttled_operations, semVars, notifyVars, ioVars,
                   throttledCall, callsSinceReset, pc, reset_pc>>

\* resume(): self.pause_notify.notify_waiters() completes every registered
\* Notified future and stores nothing for later ones
ResumeNotify ==
    /\ resume_pc = "notify"
    /\ woken' = woken \cup pause_waiters
    /\ pause_waiters' = {}
    /\ resume_pc' = "idle"
    /\ UNCHANGED <<config, auxVars, govVars, semVars, ioVars, histVars, pc, reset_pc>>

(* --------------------------- resource trackers ------------------------- *)

\* update_cpu_usage(percent)
UpdateCpuUsage(percent) ==
    /\ cpu_usage_percent' = ClampPercent(percent)
    /\ lastCpuReport' = percent
    /\ UNCHANGED <<config, lastWasPause, ramHist, sideVars, ram_usage_bytes, is_paused, total_operations,
                   throttled_operations, semVars, notifyVars, ioVars, histVars,
                   pc, resume_pc, reset_pc>>

\* Mutant of TrackRamAllocation: the report overwrites the tracked usage.
TrackRamAllocationStore(bytes) ==
    /\ ram_usage_bytes' = bytes % RamModulus
    /\ UNCHANGED <<config, lastWasPause, lastCpuReport, sideVars, cpu_usage_percent, is_paused,
                   total_operations, throttled_operations, semVars, notifyVars, ioVars,
                   histVars, pc, resume_pc, reset_pc>>

\* Mutant of TrackRamDeallocation: the subtraction is clamped at zero.
TrackRamDeallocationSaturating(bytes) ==
    /\ ram_usage_bytes' = IF bytes > ram_usage_bytes THEN 0 ELSE ram_usage_bytes - bytes
    /\ UNCHANGED <<config, lastWasPause, lastCpuReport, sideVars, cpu_usage_percent, is_paused,
                   total_operations, throttled_operations, semVars, notifyVars, ioVars,
                   histVars, pc, resume_pc, reset_pc>>

\* track_ram_allocation(bytes): fetch_add, wrapping
TrackRamAllocation(bytes) ==
    /\ ram_usage_bytes' = (ram_usage_bytes + bytes) % RamModulus
    /\ UNCHANGED <<config, lastWasPause, lastCpuReport, sideVars, cpu_usage_percent, is_paused, total_operations,
                   throttled_operations, semVars, notifyVars, ioVars, histVars,
                   pc, resume_pc, reset_pc>>

\* track_ram_deallocation(bytes): fetch_sub, wrapping
TrackRamDeallocation(bytes) ==
    /\ ram_usage_bytes' = (ram_usage_bytes - bytes) % RamModulus
    /\ UNCHANGED <<config, lastWasPause, lastCpuReport, sideVars, cpu_usage_percent, is_paused, total_operations,
                   throttled_operations, semVars, notifyVars, ioVars, histVars,
                   pc, resume_pc, reset_pc>>

(* ------------------------------ statistics ----------------------------- *)

\* Mutant of ResetTotal: the reset also clears the usage values.
ResetTotalClearsUsage ==
    /\ reset_pc = "idle"
    /\ total_operations' = 0
    /\ cpu_usage_percent' = 0
    /\ ram_usage_bytes' = 0
    /\ callsSinceReset' = 0
    /\ reset_pc' = "throttled"
    /\ UNCHANGED <<config, auxVars, is_paused,
                   throttled_operations, semVars, notifyVars, ioVars, startMode,
                   throttledCall, pc, resume_pc>>

\* reset_statistics(): self.total_operations.store(0)
ResetTotal ==
    /\ reset_pc = "idle"
    /\ total_operations' = 0
    /\ callsSinceReset' = 0
    /\ reset_pc' = "throttled"
    /\ UNCHANGED <<config, auxVars, cpu_usage_percent, ram_usage_bytes, is_paused,
                   throttled_operations, semVars, notifyVars, ioVars, startMode,
                   throttledCall, pc, resume_pc>>

\* reset_statistics(): self.throttled_operations.store(0)
ResetThrottled ==
    /\ reset_pc = "throttled"
    /\ throttled_operations' = 0
    /\ reset_pc' = "idle"
    /\ UNCHANGED <<config, auxVars, cpu_usage_percent, ram_usage_bytes, is_paused,
                   total_operations, semVars, notifyVars, ioVars, histVars, pc,
                   resume_pc>>

(* ------------------------------ throttle_io ---------------------------- *)

\* Mutant of IoLimitReached: the limit is tested with > in place of >=.
IoLimitReachedStrict(current_ops, ops_limit) == current_ops > ops_limit

\* if current_ops >= ops_limit
IoLimitReached(current_ops, ops_limit) == current_ops >= ops_limit

admVars == <<cpu_usage_percent, ram_usage_bytes, is_paused, total_operations,
             semVars, notifyVars, histVars, pc, resume_pc, reset_pc>>

\* Mutant of IoCall: the call asks for the write lock whether or not a limit
\* is configured.
IoCallAlwaysLimited(t) ==
    /\ iopc[t] = "idle"
    /\ now < MaxTime
    /\ iopc' = [iopc EXCEPT ![t] = "lock_wait"]
    /\ UNCHANGED <<config, auxVars, admVars, throttled_operations, io_ops_count,
                   io_window_start, io_lock, elapsed, wake_at, now, ioSlept,
                   fastInWindow>>

\* throttle_io is called (the model starts no call at MaxTime or later):
\* without a configured limit it returns Ok at once, with one it asks for
\* the write lock of io_window_start
IoCall(t) ==
    /\ iopc[t] = "idle"
    /\ now < MaxTime
    /\ iopc' = [iopc EXCEPT ![t] = IF config.io_ops_per_second = None
                                   THEN "returned" ELSE "lock_wait"]
    /\ UNCHANGED <<config, auxVars, admVars, throttled_operations, io_ops_count,
                   io_window_start, io_lock, elapsed, wake_at, now, ioSlept,
                   fastInWindow>>

\* Mutant of IoLock: throttle_io waits while the governor is paused.
IoLockWaitsForResume(t) ==
    /\ iopc[t] = "lock_wait"
    /\ ~is_paused
    /\ io_lock = 0
    /\ io_lock' = t
    /\ elapsed' = [elapsed EXCEPT ![t] = now - io_window_start]
    /\ iopc' = [iopc EXCEPT ![t] = "locked"]
    /\ UNCHANGED <<config, auxVars, admVars, throttled_operations, io_ops_count,
                   io_window_start, wake_at, now, ioSlept, fastInWindow>>

\* Mutant of IoLock: the guard is handed out although another call holds it.
IoLockShared(t) ==
    /\ iopc[t] = "lock_wait"
    /\ io_lock' = t
    /\ elapsed' = [elapsed EXCEPT ![t] = now - io_window_start]
    /\ iopc' = [iopc EXCEPT ![t] = "locked"]
    /\ UNCHANGED <<config, auxVars, admVars, throttled_operations, io_ops_count,
                   io_window_start, wake_at, now, ioSlept, fastInWindow>>

\* self.io_window_start.write().await returns the guard, and
\* window_start.elapsed() is read
IoLock(t) ==
    /\ iopc[t] = "lock_wait"
    /\ io_lock = 0
    /\ io_lock' = t
    /\ elapsed' = [elapsed EXCEPT ![t] = now - io_window_start]
    /\ iopc' = [iopc EXCEPT ![t] = "locked"]
    /\ UNCHANGED <<config, auxVars, admVars, throttled_operations, io_ops_count,
                   io_window_start, wake_at, now, ioSlept, fastInWindow>>

\* Mutant of IoExpired: the call that resets the window is counted in the
\* new window.
IoExpiredCounted(t) ==
    /\ iopc[t] = "locked"
    /\ elapsed[t] >= Second
    /\ io_ops_count' = 1
    /\ io_window_start' = now
    /\ io_lock' = 0
    /\ elapsed' = [elapsed EXCEPT ![t] = 0]
    /\ iopc' = [iopc EXCEPT ![t] = "returned"]
    /\ fastInWindow' = 1
    /\ UNCHANGED <<config, auxVars, admVars, throttled_operations, wake_at, now, ioSlept>>

\* The window has expired: the counter is reset, the window restarts now,
\* the guard is dropped and the call returns
IoExpired(t) ==
    /\ iopc[t] = "locked"
    /\ elapsed[t] >= Second
    /\ io_ops_count' = 0
    /\ io_window_start' = now
    /\ io_lock' = 0
    /\ elapsed' = [elapsed EXCEPT ![t] = 0]
    /\ iopc' = [iopc EXCEPT ![t] = "returned"]
    /\ fastInWindow' = 1
    /\ UNCHANGED <<config, auxVars, admVars, throttled_operations, wake_at, now, ioSlept>>

\* Mutant of IoCount: the guard is dropped before the sleep.
IoCountSleepsUnlocked(t) ==
    /\ iopc[t] = "locked"
    /\ elapsed[t] < Second
    /\ io_ops_count' = io_ops_count + 1
    /\ io_lock' = 0
    /\ IF IoLimitReached(io_ops_count, config.io_ops_per_second)
       THEN /\ throttled_operations' = throttled_operations + 1
            /\ wake_at' = [wake_at EXCEPT ![t] = now + (Second - elapsed[t])]
            /\ ioSlept' = [ioSlept EXCEPT ![t] = TRUE]
            /\ iopc' = [iopc EXCEPT ![t] = "sleeping"]
            /\ UNCHANGED <<elapsed, fastInWindow>>
       ELSE /\ elapsed' = [elapsed EXCEPT ![t] = 0]
            /\ iopc' = [iopc EXCEPT ![t] = "returned"]
            /\ fastInWindow' = fastInWindow + 1
            /\ UNCHANGED <<throttled_operations, wake_at, ioSlept>>
    /\ UNCHANGED <<config, auxVars, admVars, io_window_start, now>>

\* Inside the window: the counter is incremented; if it had reached the
\* limit the throttle is counted and the call sleeps for the rest of the
\* window, still holding the guard; otherwise the call returns
IoCount(t) ==
    /\ iopc[t] = "locked"
    /\ elapsed[t] < Second
    /\ io_ops_count' = io_ops_count + 1
    /\ IF IoLimitReached(io_ops_count, config.io_ops_per_second)
       THEN /\ throttled_operations' = throttled_operations + 1
            /\ wake_at' = [wake_at EXCEPT ![t] = now + (Second - elapsed[t])]
            /\ ioSlept' = [ioSlept EXCEPT ![t] = TRUE]
            /\ iopc' = [iopc EXCEPT ![t] = "sleeping"]
            /\ UNCHANGED <<io_lock, elapsed, fastInWindow>>
       ELSE /\ io_lock' = 0
            /\ elapsed' = [elapsed EXCEPT ![t] = 0]
            /\ iopc' = [iopc EXCEPT ![t] = "returned"]
            /\ fastInWindow' = fastInWindow + 1
            /\ UNCHANGED <<throttled_operations, wake_at, ioSlept>>
    /\ UNCHANGED <<config, auxVars, admVars, io_window_start, now>>

\* Mutant of IoWake: the new window starts with a counter of 0, the call that
\* slept is not counted in it.
IoWakeZero(t) ==
    /\ iopc[t] = "sleeping"
    /\ now >= wake_at[t]
    /\ io_ops_count' = 0
    /\ io_window_start' = now
    /\ io_lock' = 0
    /\ elapsed' = [elapsed EXCEPT ![t] = 0]
    /\ wake_at' = [wake_at EXCEPT ![t] = 0]
    /\ iopc' = [iopc EXCEPT ![t] = "returned"]
    /\ fastInWindow' = 0
    /\ UNCHANGED <<config, auxVars, admVars, throttled_operations, now, ioSlept>>

\* Mutant of IoWake: the call returns from its sleep without giving up the
\* write guard.
IoWakeKeepsGuard(t) ==
    /\ iopc[t] = "sleeping"
    /\ now >= wake_at[t]
    /\ io_ops_count' = 1
    /\ io_window_start' = now
    /\ elapsed' = [elapsed EXCEPT ![t] = 0]
    /\ wake_at' = [wake_at EXCEPT ![t] = 0]
    /\ iopc' = [iopc EXCEPT ![t] = "returned"]
    /\ fastInWindow' = 0
    /\ UNCHANGED <<config, auxVars, admVars, throttled_operations, now, ioSlept,
                   io_lock>>

\* sleep(sleep_duration).await returns, not before its deadline: the counter
\* is set to 1, the window restarts now, the guard is dropped and the call
\* returns
IoWake(t) ==
    /\ iopc[t] = "sleeping"
    /\ now >= wake_at[t]
    /\ io_ops_count' = 1
    /\ io_window_start' = now
    /\ io_lock' = 0
    /\ elapsed' = [elapsed EXCEPT ![t] = 0]
    /\ wake_at' = [wake_at EXCEPT ![t] = 0]
    /\ iopc' = [iopc EXCEPT ![t] = "returned"]
    /\ fastInWindow' = 0
    /\ UNCHANGED <<config, auxVars, admVars, throttled_operations, now, ioSlept>>

\* The caller has seen the Ok(()).
IoReturn(t) ==
    /\ iopc[t] = "returned"
    /\ iopc' = [iopc EXCEPT ![t] = "idle"]
    /\ ioSlept' = [ioSlept EXCEPT ![t] = FALSE]
    /\ UNCHANGED <<config, auxVars, admVars, throttled_operations, io_ops_count,
                   io_window_start, io_lock, elapsed, wake_at, now, fastInWindow>>

\* The clock advances: up to MaxTime, and beyond it for as long as a
\* sleeping call has not reached its deadline (no call starts at MaxTime or
\* later, so the clock stops once the calls in flight have woken).
Tick ==
    /\ now < MaxTime \/ \E t \in IoCallers : iopc[t] = "sleeping" /\ now < wake_at[t]
    /\ now' = now + 1
    /\ UNCHANGED <<config, auxVars, admVars, throttled_operations, io_ops_count,
                   io_window_start, io_lock, iopc, elapsed, wake_at, ioSlept,
                   fastInWindow>>

(* -------------------------------- get_rng ------------------------------ *)

\* The seed of the deterministic generator.
RngSeed == 42

\* The governors get_rng() is called on: the governor, a clone of it, and a
\* governor constructed separately from an identical configuration.
Governors == {"governor", "clone", "separate"}

\* self.config of each of them: clone() copies the configuration, and the
\* separate governor was given an identical one.
ConfigOf(g) == config

\* StdRng::seed_from_u64(seed): a generator whose output is a function of
\* its key and of the number of words drawn so far.
SeedFromU64(seed) == [kind |-> "Deterministic", key |-> seed % RngWords, drawn |-> 0]

\* rand::thread_rng()
ThreadRng == [kind |-> "Random"]

\* The word a deterministic generator yields next.
StdRngWord(g) == (g.key + g.drawn) % RngWords

\* Mutant of GetRng: the seed of the deterministic generator depends on
\* whether the governor is paused.
GetRngSeededFromState(h, g) ==
    /\ rng[h] = NoRng
    /\ rng' = [rng EXCEPT ![h] = IF ConfigOf(g).deterministic_mode
                                  THEN SeedFromU64(IF is_paused THEN RngSeed + 1 ELSE RngSeed)
                                  ELSE ThreadRng]
    /\ UNCHANGED <<governorVars, newResult, rngOut, cryptoVars, pluginVars, taskVars>>

\* get_rng() on governor g
GetRng(h, g) ==
    /\ rng[h] = NoRng
    /\ rng' = [rng EXCEPT ![h] = IF ConfigOf(g).deterministic_mode
                                  THEN SeedFromU64(RngSeed)
                                  ELSE ThreadRng]
    /\ UNCHANGED <<governorVars, newResult, rngOut, cryptoVars, pluginVars, taskVars>>

\* next_u64() on a GovernorRng: the next word of the seeded generator, or
\* any word from the thread generator.
NextU64(h) ==
    /\ rng[h] # NoRng
    /\ Len(rngOut[h]) < MaxDraws
    /\ IF rng[h].kind = "Deterministic"
       THEN /\ rngOut' = [rngOut EXCEPT ![h] = Append(@, StdRngWord(rng[h]))]
            /\ rng' = [rng EXCEPT ![h].drawn = @ + 1]
       ELSE /\ \E w \in 0..(RngWords - 1) :
                  rngOut' = [rngOut EXCEPT ![h] = Append(@, w)]
            /\ UNCHANGED rng
    /\ UNCHANGED <<governorVars, newResult, cryptoVars, pluginVars, taskVars>>

(* ----------------------------- EncryptionKey --------------------------- *)

\* Values of the nonce counter: Wrapping<u64>.
CounterModulus == 2^CounterBits

\* The model encrypts once more than there are counter values.
MaxEncrypts == CounterModulus + 1

\* Data given to encrypt, associated data given to encrypt, and associated
\* data given to decrypt.
Plaintexts == {"a", "b"}

EncryptAads == {"x"}

DecryptAads == {"x", "y"}

\* Counter::advance: the nonce is the counter's value (its little-endian
\* bytes after four zero bytes); the counter is then incremented, wrapping.
NonceOf(counter) == counter

Advance(counter) == (counter + 1) % CounterModulus

\* AES-256-GCM sealing under the key: the ciphertext and tag are determined
\* by the nonce, the data and the associated data.
Seal(nonce, plaintext, aad) == [nonce |-> nonce, data |-> plaintext, aad |-> aad]

\* AES-256-GCM opening under the key: the tag verifies only under the nonce
\* and the associated data the ciphertext was sealed with.
Opens(nonce, ciphertext, aad) == ciphertext.nonce = nonce /\ ciphertext.aad = aad

\* encrypt(plaintext, associated_data): seal_in_place_append_tag takes the
\* next nonce of the sealing key's Counter
Encrypt(plaintext, aad) ==
    /\ Len(sealed) < MaxEncrypts
    /\ sealed' = Append(sealed, Seal(NonceOf(seal_counter), plaintext, aad))
    /\ seal_counter' = Advance(seal_counter)
    /\ UNCHANGED <<governorVars, newResult, rngVars, pluginVars, taskVars, open_counter, lastDecrypt>>

\* decrypt(ciphertext, associated_data): open_in_place takes the next nonce
\* of the opening key's Counter, then verifies and decrypts
Decrypt(ciphertext, aad) ==
    /\ lastDecrypt' =
          [ciphertext |-> ciphertext, aad |-> aad,
           result |-> IF Opens(NonceOf(open_counter), ciphertext, aad)
                      THEN "Ok" ELSE "Crypto",
           data |-> IF Opens(NonceOf(open_counter), ciphertext, aad)
                    THEN ciphertext.data ELSE "none"]
    /\ open_counter' = Advance(open_counter)
    /\ UNCHANGED <<governorVars, newResult, rngVars, pluginVars, taskVars, seal_counter, sealed>>

(* ----------------------------- PluginRegistry -------------------------- *)

\* The PluginState each lifecycle call records when it succeeds.
StateAfter(op) ==
    CASE op = "none"       -> NoState
      [] op = "register"   -> "Loaded"
      [] op = "initialize" -> "Ready"
      [] op = "start"      -> "Active"
      [] op = "stop"       -> "Ready"
      [] op = "unregister" -> "Unloaded"

\* get_state(plugin_id): states.get(plugin_id).copied()
GetState(id) == states[id]

\* What a lifecycle method does to the maps once it holds both write locks,
\* for a callback that returns Ok (ok) or an error: the plugin is looked up,
\* the callback awaited, and only then the state recorded.
LifecycleLocked(op, id, ok, state) ==
    /\ IF plugins[id] = NoPlugin
       THEN /\ lastCall' = [op |-> op, id |-> id, result |-> "Validation"]
            /\ UNCHANGED <<states, lastOk, initialized>>
       ELSE IF ~ok
       THEN /\ lastCall' = [op |-> op, id |-> id, result |-> "Callback"]
            /\ UNCHANGED <<states, lastOk, initialized>>
       ELSE /\ states' = [states EXCEPT ![id] = state]
            /\ lastOk' = [lastOk EXCEPT ![id] = op]
            /\ initialized' = [initialized EXCEPT
                                  ![id] = @ \/ op = "initialize"]
            /\ lastCall' = [op |-> op, id |-> id, result |-> "Ok"]
    /\ UNCHANGED plugins

\* A lifecycle method called with no other registry call in progress.
Lifecycle(op, id, ok, state) ==
    /\ LifecycleLocked(op, id, ok, state)
    /\ UNCHANGED <<governorVars, newResult, rngVars, cryptoVars, taskVars>>

\* Mutant of Register: a plugin with a registered id replaces the one
\* registered, and the call still reports the Validation error.
RegisterReplaces(id, object) ==
    /\ plugins' = [plugins EXCEPT ![id] = object]
    /\ states' = [states EXCEPT ![id] = "Loaded"]
    /\ initialized' = [initialized EXCEPT ![id] = FALSE]
    /\ IF plugins[id] # NoPlugin
       THEN /\ lastCall' = [op |-> "register", id |-> id, result |-> "Validation"]
            /\ UNCHANGED lastOk
       ELSE /\ lastOk' = [lastOk EXCEPT ![id] = "register"]
            /\ lastCall' = [op |-> "register", id |-> id, result |-> "Ok"]
    /\ UNCHANGED <<governorVars, newResult, rngVars, cryptoVars, taskVars>>

\* What register does to the maps once it holds both write locks.
RegisterLocked(id, object) ==
    IF plugins[id] # NoPlugin
    THEN /\ lastCall' = [op |-> "register", id |-> id, result |-> "Validation"]
         /\ UNCHANGED <<plugins, states, lastOk, initialized>>
    ELSE /\ states' = [states EXCEPT ![id] = "Loaded"]
         /\ plugins' = [plugins EXCEPT ![id] = object]
         /\ lastOk' = [lastOk EXCEPT ![id] = "register"]
         /\ initialized' = [initialized EXCEPT ![id] = FALSE]
         /\ lastCall' = [op |-> "register", id |-> id, result |-> "Ok"]

\* register(plugin), for a plugin object whose metadata carries the id
Register(id, object) ==
    /\ RegisterLocked(id, object)
    /\ UNCHANGED <<governorVars, newResult, rngVars, cryptoVars, taskVars>>

\* What unregister does to the maps once it holds both write locks.
UnregisterLocked(id) ==
    IF plugins[id] = NoPlugin
    THEN /\ lastCall' = [op |-> "unregister", id |-> id, result |-> "Validation"]
         /\ UNCHANGED <<plugins, states, lastOk, initialized>>
    ELSE /\ plugins' = [plugins EXCEPT ![id] = NoPlugin]
         /\ states' = [states EXCEPT ![id] = "Unloaded"]
         /\ lastOk' = [lastOk EXCEPT ![id] = "unregister"]
         /\ lastCall' = [op |-> "unregister", id |-> id, result |-> "Ok"]
         /\ UNCHANGED initialized

\* unregister(plugin_id)
Unregister(id) ==
    /\ UnregisterLocked(id)
    /\ UNCHANGED <<governorVars, newResult, rngVars, cryptoVars, taskVars>>

\* Mutant of Initialize: the state is recorded before the callback's result
\* is looked at.
InitializeEager(id, ok) ==
    /\ IF plugins[id] = NoPlugin
       THEN /\ lastCall' = [op |-> "initialize", id |-> id, result |-> "Validation"]
            /\ UNCHANGED <<states, lastOk, initialized>>
       ELSE /\ states' = [states EXCEPT ![id] = "Ready"]
            /\ IF ok
               THEN /\ lastOk' = [lastOk EXCEPT ![id] = "initialize"]
                    /\ initialized' = [initialized EXCEPT ![id] = TRUE]
                    /\ lastCall' = [op |-> "initialize", id |-> id, result |-> "Ok"]
               ELSE /\ lastCall' = [op |-> "initialize", id |-> id, result |-> "Callback"]
                    /\ UNCHANGED <<lastOk, initialized>>
    /\ UNCHANGED <<governorVars, newResult, rngVars, cryptoVars, taskVars, plugins>>

\* initialize(plugin_id)
Initialize(id, ok) == Lifecycle("initialize", id, ok, "Ready")

\* start(plugin_id)
StartPlugin(id, ok) == Lifecycle("start", id, ok, "Active")

\* stop(plugin_id)
StopPlugin(id, ok) == Lifecycle("stop", id, ok, "Ready")

(* ------------------- PluginRegistry: concurrent calls ------------------ *)

\* tokio's RwLock is fair: a request is granted at once only when nobody is
\* queued and the holders allow it, and is queued behind the others
\* otherwise; readers share the lock, a writer has it alone.
CanGrant(lk, mode) ==
    IF mode = "write" THEN lk.writer = 0 /\ lk.readers = {} ELSE lk.writer = 0

Grant(lk, t, mode) ==
    IF mode = "write"
    THEN [lk EXCEPT !.writer = t]
    ELSE [lk EXCEPT !.readers = @ \cup {t}]

\* read().await or write().await of task t begins
Request(lk, t, mode) ==
    IF lk.queue = <<>> /\ CanGrant(lk, mode)
    THEN Grant(lk, t, mode)
    ELSE [lk EXCEPT !.queue = Append(@, [task |-> t, mode |-> mode])]

\* The queued requests are granted in order, as far as the holders allow.
RECURSIVE Drain(_)
Drain(lk) ==
    IF lk.queue # <<>> /\ CanGrant(lk, Head(lk.queue).mode)
    THEN Drain(Grant([lk EXCEPT !.queue = Tail(@)],
                     Head(lk.queue).task, Head(lk.queue).mode))
    ELSE lk

\* The guard of task t, if it has one on this lock, is dropped.
Release(lk, t) ==
    Drain([lk EXCEPT !.writer = IF @ = t THEN 0 ELSE @,
                     !.readers = @ \ {t}])

Holds(lk, t) == lk.writer = t \/ t \in lk.readers

\* Mutant of LockOrder: unregister takes the write lock of states before
\* the write lock of plugins.
LockOrderInverted(op) ==
    CASE op = "execute"    -> <<[name |-> "plugins", mode |-> "write"]>>
      [] op = "get_state"  -> <<[name |-> "states", mode |-> "read"]>>
      [] op = "unregister" -> <<[name |-> "states", mode |-> "write"],
                                [name |-> "plugins", mode |-> "write"]>>
      [] OTHER             -> <<[name |-> "plugins", mode |-> "write"],
                                [name |-> "states", mode |-> "write"]>>

\* The locks each method takes, in the order of its first statements:
\* execute only plugins.write(), get_state only states.read(), the others
\* plugins.write() and then states.write().
LockOrder(op) ==
    CASE op = "execute"   -> <<[name |-> "plugins", mode |-> "write"]>>
      [] op = "get_state" -> <<[name |-> "states", mode |-> "read"]>>
      [] OTHER            -> <<[name |-> "plugins", mode |-> "write"],
                               [name |-> "states", mode |-> "write"]>>

RegistryOps == {"register", "unregister", "initialize", "start", "stop",
                "execute", "get_state"}

\* The methods that await a callback of the plugin.
CallbackOps == {"initialize", "start", "stop", "execute"}

\* The request for the n-th lock of the call of task t.
Wanted(t, n) == LockOrder(call[t].op)[n]

\* The method returns: its guards are dropped.
Return(t, result) ==
    /\ rpc' = [rpc EXCEPT ![t] = "idle"]
    /\ callResult' = [callResult EXCEPT ![t] = result]
    /\ locks' = [l \in LockNames |-> Release(locks[l], t)]
    /\ call' = [call EXCEPT ![t] = NoCall]

\* Task t calls a method of its clone of the registry; `ok` is what the
\* plugin's callback will return to this call. The method runs up to its
\* first await.
CallRegistry(t, op, id, object, ok) ==
    /\ rpc[t] = "idle"
    /\ op = "register" \/ object = 1
    /\ object \in RegistryObjects
    /\ op \in CallbackOps \/ ok
    /\ LET first == LockOrder(op)[1]
           lk == Request(locks[first.name], t, first.mode)
       IN /\ locks' = [locks EXCEPT ![first.name] = lk]
          /\ call' = [call EXCEPT ![t] =
                         [op |-> op, id |-> id, object |-> object, ok |-> ok,
                          n |-> 1]]
    /\ rpc' = [rpc EXCEPT ![t] = "acquiring"]
    /\ callResult' = [callResult EXCEPT ![t] = "none"]
    /\ UNCHANGED <<governorVars, newResult, rngVars, cryptoVars, pluginVars>>

\* read().await / write().await returns the guard to task t, which goes
\* on to its next lock if it takes another one.
LockGranted(t) ==
    /\ rpc[t] = "acquiring"
    /\ Holds(locks[Wanted(t, call[t].n).name], t)
    /\ IF call[t].n < Len(LockOrder(call[t].op))
       THEN LET next == Wanted(t, call[t].n + 1)
                lk == Request(locks[next.name], t, next.mode)
            IN /\ locks' = [locks EXCEPT ![next.name] = lk]
               /\ call' = [call EXCEPT ![t].n = @ + 1]
               /\ UNCHANGED rpc
       ELSE /\ rpc' = [rpc EXCEPT ![t] = "locked"]
            /\ UNCHANGED <<locks, call>>
    /\ UNCHANGED <<governorVars, newResult, rngVars, cryptoVars, pluginVars,
                   callResult>>

\* register, from the contains_key test to its return
RunRegister(t) ==
    /\ rpc[t] = "locked"
    /\ call[t].op = "register"
    /\ RegisterLocked(call[t].id, call[t].object)
    /\ Return(t, lastCall'.result)
    /\ UNCHANGED <<governorVars, newResult, rngVars, cryptoVars>>

\* unregister, from plugins.remove to its return
RunUnregister(t) ==
    /\ rpc[t] = "locked"
    /\ call[t].op = "unregister"
    /\ UnregisterLocked(call[t].id)
    /\ Return(t, lastCall'.result)
    /\ UNCHANGED <<governorVars, newResult, rngVars, cryptoVars>>

\* get_state, from states.get to its return
RunGetState(t) ==
    /\ rpc[t] = "locked"
    /\ call[t].op = "get_state"
    /\ Return(t, GetState(call[t].id))
    /\ UNCHANGED <<governorVars, newResult, rngVars, cryptoVars, pluginVars>>

\* plugins.get_mut(plugin_id) of initialize, start, stop and execute: an
\* unknown id returns the Validation error, a known one awaits the
\* plugin's callback with the guards held.
LookUp(t) ==
    /\ rpc[t] = "locked"
    /\ call[t].op \in CallbackOps
    /\ IF plugins[call[t].id] # NoPlugin
       THEN /\ rpc' = [rpc EXCEPT ![t] = "callback"]
            /\ UNCHANGED <<pluginVars, call, callResult, locks>>
       ELSE /\ Return(t, "Validation")
            /\ IF call[t].op = "execute"
               THEN UNCHANGED pluginVars
               ELSE LifecycleLocked(call[t].op, call[t].id, call[t].ok,
                                    StateAfter(call[t].op))
    /\ UNCHANGED <<governorVars, newResult, rngVars, cryptoVars>>

\* The plugin's callback returns; initialize, start and stop record their
\* state if it returned Ok, execute hands the callback's result on.
CallbackReturns(t) ==
    /\ rpc[t] = "callback"
    /\ Return(t, IF call[t].ok THEN "Ok" ELSE "Callback")
    /\ IF call[t].op = "execute"
       THEN UNCHANGED pluginVars
       ELSE LifecycleLocked(call[t].op, call[t].id, call[t].ok,
                            StateAfter(call[t].op))
    /\ UNCHANGED <<governorVars, newResult, rngVars, cryptoVars>>

(* ------------------------------ observers ------------------------------ *)

\* current_ram_usage(): self.ram_usage_bytes.load()
CurrentRamUsage == ram_usage_bytes

\* current_cpu_usage(): self.cpu_usage_percent.load()
CurrentCpuUsage == cpu_usage_percent

\* statistics(): a GovernorStatistics read off the atomics
Statistics ==
    [total_operations     |-> total_operations,
     throttled_operations |-> throttled_operations,
     current_cpu_usage    |-> cpu_usage_percent,
     current_ram_usage    |-> ram_usage_bytes,
     is_paused            |-> is_paused]

(* ---------------------------- specification ---------------------------- *)

Next ==
    \/ \E t \in Callers : Start(t)
    \/ \E t \in Callers : PauseLoad(t)
    \/ \E t \in Callers : PauseRegister(t)
    \/ \E t \in Callers : PauseWake(t)
    \/ \E t \in Callers : AcquireCapacity(t)
    \/ \E t \in Callers : SemWake(t)
    \/ \E t \in Callers : CpuCheck(t)
    \/ \E t \in Callers : BackoffDone(t)
    \/ \E t \in Callers : RamCheck(t)
    \/ \E t \in Callers : TakePermit(t)
    \/ \E t \in Callers : Acknowledge(t)
    \/ \E t \in Callers : CancelPauseWait(t)
    \/ \E t \in Callers : CancelCapacityWait(t)
    \/ \E t \in Callers : CancelBackoff(t)
    \/ DropPermit
    \/ Pause
    \/ ResumeStore
    \/ ResumeNotify
    \/ \E p \in CpuInputs : UpdateCpuUsage(p)
    \/ \E b \in RamInputs : TrackRamAllocation(b) /\ UNCHANGED ramHist
    \/ \E b \in RamInputs : TrackRamDeallocation(b) /\ UNCHANGED ramHist

Spec == Init /\ [][Next]_vars

\* The steps of one acquire_permit call that the runtime takes whenever they
\* are possible: the polls of the call's future (the caller keeps awaiting
\* it) and the receipt of the returned permit.
CallStep(t) ==
    \/ PauseLoad(t)
    \/ PauseRegister(t)
    \/ PauseWake(t)
    \/ AcquireCapacity(t)
    \/ SemWake(t)
    \/ CpuCheck(t)
    \/ BackoffDone(t)
    \/ RamCheck(t)
    \/ TakePermit(t)

\* Fair scheduling of the admission path: every call in flight keeps being
\* polled, every OperationPermit held by a caller is eventually dropped, and
\* a resume() that has stored the flag goes on to notify_waiters().  Starting
\* a call, cancelling one, pause(), the start of resume() and the usage
\* trackers are the environment's choice and carry no fairness.
Fairness ==
    /\ \A t \in Callers : WF_vars(CallStep(t))
    /\ WF_vars(DropPermit)
    /\ WF_vars(ResumeNotify)

FairSpec == Spec /\ Fairness

\* The largest value of update_cpu_usage's argument, a u8.
U8Max == 255

\* Every value update_cpu_usage can be called with.
Percents == 0..U8Max

\* The CPU usage tracker on its own, reported any value of its argument.
NextCpu == \E p \in Percents : UpdateCpuUsage(p)

SpecCpu == Init /\ [][NextCpu]_vars

\* Byte counts the RAM tracker on its own is reported.
RamReports == {1, 2}

\* A running total of the reports is within the range of the counter.
InRamRange(total) == total >= 0 /\ total < RamModulus

\* track_ram_allocation(b), with the report recorded; the model reports at
\* most MaxRamTotal bytes in all.
ReportAllocation(b) ==
    /\ ramAllocated + b <= MaxRamTotal
    /\ TrackRamAllocation(b)
    /\ ramAllocated' = ramAllocated + b
    /\ ramInRange' = (ramInRange /\ InRamRange(ramAllocated + b - ramDeallocated))
    /\ UNCHANGED ramDeallocated

\* track_ram_deallocation(b), with the report recorded.
ReportDeallocation(b) ==
    /\ ramDeallocated + b <= MaxRamTotal
    /\ TrackRamDeallocation(b)
    /\ ramDeallocated' = ramDeallocated + b
    /\ ramInRange' = (ramInRange /\ InRamRange(ramAllocated - (ramDeallocated + b)))
    /\ UNCHANGED ramAllocated

\* The RAM tracker on its own: the reports of concurrent callers, each one
\* atomic read-modify-write, in any order.
NextRam ==
    \/ \E b \in RamReports : ReportAllocation(b)
    \/ \E b \in RamReports : ReportDeallocation(b)

SpecRam == Init /\ [][NextRam]_vars

\* The configurations ResourceGovernor::new is called with: every CPU cap
\* of a u8 or none, every max_concurrent_operations of a usize.
NewConfigs ==
    [cpu_cap_percent : {None} \cup (0..U8Max), ram_cap_bytes : {None},
     io_ops_per_second : {None}, max_concurrent_operations : 0..UsizeMax]

\* ResourceGovernor::new(cfg) has been called and has not returned; the
\* governor's variables hold what it would build, and mean nothing unless
\* it returns Ok.
InitNew == \E cfg \in NewConfigs : Fields(cfg) /\ newResult = "pending"

\* ResourceGovernor::new returns, or panics.
Construct ==
    /\ newResult = "pending"
    /\ newResult' = NewOutcome(config)
    /\ UNCHANGED <<governorVars, rngVars, cryptoVars, pluginVars, taskVars>>

NextNew == Construct

SpecNew == InitNew /\ [][NextNew]_vars

\* The configurations of the governors get_rng() is called on, in
\* deterministic mode and not.
RngConfigs ==
    { [cpu_cap_percent |-> None, ram_cap_bytes |-> None, io_ops_per_second |-> None,
       max_concurrent_operations |-> 1, deterministic_mode |-> d] : d \in BOOLEAN }

InitRng == \E cfg \in RngConfigs : New(cfg)

\* get_rng() calls and draws, among other operations on the governor.
NextRng ==
    \/ \E h \in Rngs, g \in Governors : GetRng(h, g)
    \/ \E h \in Rngs : NextU64(h)
    \/ \E p \in CpuInputs : UpdateCpuUsage(p)
    \/ Pause

SpecRng == InitRng /\ [][NextRng]_vars

\* An EncryptionKey in use: encrypt calls, and decrypt calls on the
\* ciphertexts the key has produced.
NextCrypto ==
    \/ \E p \in Plaintexts, a \in EncryptAads : Encrypt(p, a)
    \/ \E i \in 1..Len(sealed), a \in DecryptAads : Decrypt(sealed[i], a)

SpecCrypto == Init /\ [][NextCrypto]_vars

\* A PluginRegistry in use: every lifecycle call, on every id, with
\* callbacks that succeed and callbacks that fail.
NextPlugin ==
    \/ \E id \in PluginIds, object \in PluginObjects : Register(id, object)
    \/ \E id \in PluginIds : Unregister(id)
    \/ \E id \in PluginIds, ok \in BOOLEAN : Initialize(id, ok)
    \/ \E id \in PluginIds, ok \in BOOLEAN : StartPlugin(id, ok)
    \/ \E id \in PluginIds, ok \in BOOLEAN : StopPlugin(id, ok)

SpecPlugin == Init /\ [][NextPlugin]_vars

\* Tasks calling the methods of one PluginRegistry concurrently.
TaskStep(t) ==
    \/ LockGranted(t)
    \/ RunRegister(t)
    \/ RunUnregister(t)
    \/ RunGetState(t)
    \/ LookUp(t)
    \/ CallbackReturns(t)

NextRegistry ==
    \/ \E t \in Tasks, op \in RegistryOps, id \in RegistryIds,
          object \in PluginObjects, ok \in BOOLEAN :
          CallRegistry(t, op, id, object, ok)
    \/ \E t \in Tasks : TaskStep(t)

SpecRegistry == Init /\ [][NextRegistry]_vars

\* The runtime polls every task that can go on, and the plugin's callbacks
\* return.
FairnessRegistry == \A t \in Tasks : WF_vars(TaskStep(t))

FairSpecRegistry == SpecRegistry /\ FairnessRegistry

InitIO == \E cfg \in IoConfigs : New(cfg)

NextIO ==
    \/ \E t \in IoCallers : IoCall(t)
    \/ \E t \in IoCallers : IoLock(t)
    \/ \E t \in IoCallers : IoExpired(t)
    \/ \E t \in IoCallers : IoCount(t)
    \/ \E t \in IoCallers : IoWake(t)
    \/ \E t \in IoCallers : IoReturn(t)
    \/ Tick

SpecIO == InitIO /\ [][NextIO]_vars

\* The configurations of the governors whose statistics are reset: the
\* admission governor, and an I/O-throttling governor with a limit of 1.
StatsConfigs ==
    {cfg \in AdmissionConfigs : Validate(cfg)}
        \cup {cfg \in IoConfigs : cfg.io_ops_per_second = 1}

InitStats == \E cfg \in StatsConfigs : New(cfg)

\* The callers of acquire_permit on the governor whose statistics are reset.
StatsCallers == {1}

\* A step of the acquire_permit call of t, or of its caller: start, polls,
\* receipt of the result, cancellation.
CallerStep(t) ==
    \/ Start(t)
    \/ CallStep(t)
    \/ Acknowledge(t)
    \/ CancelPauseWait(t)
    \/ CancelCapacityWait(t)
    \/ CancelBackoff(t)

\* A step of the other operations of the admission governor.
GovernorStep ==
    \/ DropPermit
    \/ Pause
    \/ ResumeStore
    \/ ResumeNotify
    \/ \E p \in CpuInputs : UpdateCpuUsage(p)
    \/ \E b \in RamInputs : TrackRamAllocation(b) /\ UNCHANGED ramHist
    \/ \E b \in RamInputs : TrackRamDeallocation(b) /\ UNCHANGED ramHist

\* Every operation of the governor together with reset_statistics(), whose
\* two stores are separate steps: the admission governor takes acquire_permit
\* calls, pause and resume and the trackers, the I/O governor takes
\* concurrent throttle_io calls.
NextStats ==
    \/ config.io_ops_per_second = None /\ \E t \in StatsCallers : CallerStep(t)
    \/ config.io_ops_per_second = None /\ GovernorStep
    \/ config.io_ops_per_second # None /\ NextIO
    \/ ResetTotal
    \/ ResetThrottled

SpecStats == InitStats /\ [][NextStats]_vars

\* Governors with every combination of caps: no CPU cap, a cap the usage
\* can exceed (50) and the cap the clamped usage can only equal (100); no
\* RAM cap and a cap of 1 byte, which the usage can equal and exceed.
CapConfigs ==
    { [cpu_cap_percent |-> c, ram_cap_bytes |-> r, io_ops_per_second |-> None,
       max_concurrent_operations |-> 1] : c \in {None, 50, 100}, r \in {None, 1} }

InitCaps == \E cfg \in CapConfigs : New(cfg)

NextCaps ==
    \/ \E t \in StatsCallers : CallerStep(t)
    \/ GovernorStep

SpecCaps == InitCaps /\ [][NextCaps]_vars

\* A governor with an I/O limit of 1 on which throttle_io calls are made
\* while acquire_permit calls, permits, pause() and resume() are at work
\* and CPU usage (of 100) and RAM usage (1 byte, once) are reported.
MixedConfigs ==
    {cfg \in IoConfigs : cfg.io_ops_per_second = 1}

InitMixed == \E cfg \in MixedConfigs : New(cfg)

\* The caller of throttle_io on that governor.
MixedIoCallers == {1}

\* The polls of the throttle_io call of t.
IoStep(t) ==
    \/ IoLock(t)
    \/ IoExpired(t)
    \/ IoCount(t)
    \/ IoWake(t)

\* The polls of an acquire_permit call on a governor without caps, which
\* neither backs off nor is rejected.
AdmissionStep(t) ==
    \/ PauseLoad(t)
    \/ PauseRegister(t)
    \/ PauseWake(t)
    \/ AcquireCapacity(t)
    \/ SemWake(t)
    \/ CpuCheck(t)
    \/ RamCheck(t)
    \/ TakePermit(t)

NextMixed ==
    \/ \E t \in MixedIoCallers : IoCall(t)
    \/ \E t \in MixedIoCallers : IoStep(t)
    \/ \E t \in MixedIoCallers : IoReturn(t)
    \/ Tick
    \/ \E t \in StatsCallers : Start(t)
    \/ \E t \in StatsCallers : AdmissionStep(t)
    \/ DropPermit
    \/ Pause
    \/ ResumeStore
    \/ ResumeNotify
    \/ UpdateCpuUsage(U8Max)
    \/ \E b \in RamInputs : TrackRamAllocation(b) /\ ram_usage_bytes = 0
                               /\ UNCHANGED ramHist

SpecMixed == InitMixed /\ [][NextMixed]_vars

\* The throttle_io call is polled and time passes; nothing makes the
\* governor resume, a permit be dropped or an acquire_permit call go on.
FairnessMixed ==
    /\ WF_vars(Tick)
    /\ \A t \in MixedIoCallers : WF_vars(IoStep(t))

FairSpecMixed == SpecMixed /\ FairnessMixed

(* ------------------------------- claims -------------------------------- *)

InQueue(t) == \E i \in 1..Len(sem_waiters) : sem_waiters[i] = t

\* Capacity units held: by calls past the capacity acquisition and by
\* OperationPermits in their callers' hands.
UnitsHeld == Cardinality(holders) + outstanding

\* No acquire_permit call is in flight.
NoCallInFlight == \A t \in Callers : pc[t] \in {"idle", "rejected", "cancelled"}

\* C1: in every reachable state the number of capacity units held
\* (outstanding OperationPermits plus calls past the capacity acquisition
\* that have not returned) is at most max_concurrent_operations.
C1_CapacityBound == UnitsHeld <= config.max_concurrent_operations

\* C1 witness: every unit is held and a further caller waits for capacity.
C1_Witness ==
    /\ UnitsHeld = config.max_concurrent_operations
    /\ sem_waiters # <<>>

\* C2: a call that began while the governor was paused has not returned
\* (with a permit or with an error) unless resume() has stored
\* is_paused = false since the call began.
C2_PausedCallWaitsForResume ==
    \A t \in Callers : pc[t] \in {"granted", "rejected"} => startMode[t] # "paused"

\* C2 witness: a call that began while paused has been granted its permit,
\* after a resume().
C2_Witness == \E t \in Callers : pc[t] = "granted" /\ startMode[t] = "resumed"

\* C3 (as claimed): resume() releases every caller suspended at the pause
\* step.  Stated on states: when the governor is running and no resume() is
\* under way, no caller is suspended at the pause step without having been
\* notified, since only a further resume() could release such a caller.
C3_NoLostWakeup ==
    \A t \in Callers :
        (pc[t] = "pause_wait" /\ t \notin woken) => (is_paused \/ resume_pc = "notify")

\* C4 (as claimed): while is_paused is true no acquire_permit call returns a
\* permit.
C4_NoGrantWhilePaused ==
    [][\A t \in Callers : (pc[t] = "ram_check" /\ pc'[t] = "granted") => ~is_paused]_vars

\* C4 (amended): while is_paused is true no acquire_permit call gets past
\* the pause step; a call leaves the pause step towards the capacity
\* acquisition only on reading is_paused = false.
C4_NoPassWhilePaused ==
    [][\A t \in Callers :
          (pc[t] \in {"pause_check", "pause_register", "pause_wait"} /\ pc'[t] = "acquire")
              => ~is_paused]_vars

\* C4 witness: the governor is paused, one caller is suspended at the pause
\* step and another, already past it, has been granted a permit.
C4_Witness ==
    /\ is_paused
    /\ \E t \in Callers : pc[t] = "pause_wait"
    /\ \E t \in Callers : pc[t] = "granted"

\* C5: available capacity plus capacity held equals
\* max_concurrent_operations in every reachable state, and with no call in
\* flight and every permit dropped all of it is available.
C5_CapacityConserved ==
    /\ permits + UnitsHeld = config.max_concurrent_operations
    /\ (NoCallInFlight /\ outstanding = 0) =>
           (permits = config.max_concurrent_operations /\ holders = {}
            /\ sem_waiters = <<>>)

\* C5 witness: nothing is in flight or outstanding after a call that was
\* CPU-throttled and then rejected for RAM, and a second call.
C5_Witness ==
    /\ NoCallInFlight
    /\ outstanding = 0
    /\ callsSinceReset >= 2
    /\ \E t \in Callers : pc[t] = "rejected" /\ throttledCall[t]

\* C6: a call whose RAM check finds ram_usage_bytes above the configured
\* cap returns the ram_usage Validation error, is granted no permit and
\* gives back its unit (to the counter, or to the first queued waiter), so
\* that once it has returned it holds nothing and the available capacity is
\* what the other holders leave.
C6_RamRejection ==
    /\ [](\A t \in Callers :
             pc[t] = "rejected" =>
                 /\ t \notin holders
                 /\ ~InQueue(t)
                 /\ permits = config.max_concurrent_operations - UnitsHeld)
    /\ [][\A t \in Callers :
             (/\ pc[t] = "ram_check"
              /\ pc'[t] # "ram_check"
              /\ config.ram_cap_bytes # None
              /\ ram_usage_bytes > config.ram_cap_bytes)
             => /\ pc'[t] = "rejected"
                /\ t \in holders
                /\ t \notin holders'
                /\ outstanding' = outstanding
                /\ IF sem_waiters = <<>>
                   THEN permits' = permits + 1
                   ELSE permits' = permits /\ Head(sem_waiters) \in holders']_vars

\* C6 witness: a call has been rejected for RAM and every unit is available
\* again.
C6_Witness ==
    /\ \E t \in Callers : pc[t] = "rejected"
    /\ ram_usage_bytes > config.ram_cap_bytes
    /\ permits = config.max_concurrent_operations

\* C7: a call whose CPU check finds cpu_usage_percent above the configured
\* cap adds exactly 1 to throttled_operations and backs off once; after the
\* backoff it goes on to the RAM check without looking at the CPU again,
\* and it is granted its permit whenever the RAM check passes.  Only RAM
\* above its cap makes a call return an error.
C7_CpuThrottleIsSoft ==
    [][\A t \in Callers :
          /\ (/\ pc[t] = "cpu_check"
              /\ pc'[t] # "cpu_check"
              /\ config.cpu_cap_percent # None
              /\ cpu_usage_percent > config.cpu_cap_percent)
             => (throttled_operations' = throttled_operations + 1 /\ pc'[t] = "backoff")
          /\ (pc[t] = "backoff" /\ pc'[t] \notin {"backoff", "cancelled"})
             => (throttled_operations' = throttled_operations /\ pc'[t] = "ram_check")
          /\ (/\ pc[t] = "ram_check"
              /\ pc'[t] # "ram_check"
              /\ ~(config.ram_cap_bytes # None /\ ram_usage_bytes > config.ram_cap_bytes))
             => pc'[t] = "granted"
          /\ (pc[t] # "rejected" /\ pc'[t] = "rejected")
             => (config.ram_cap_bytes # None /\ ram_usage_bytes > config.ram_cap_bytes)]_vars

\* C7 witness: a call that was CPU-throttled has been granted its permit
\* while the CPU usage is still above the cap.
C7_Witness ==
    \E t \in Callers :
        /\ pc[t] = "granted"
        /\ throttledCall[t]
        /\ config.cpu_cap_percent # None
        /\ cpu_usage_percent > config.cpu_cap_percent

\* C8: a cancelled call holds no capacity unit and is in no wait queue, so
\* that a unit released later cannot go to it; and a unit the call had
\* acquired before the cancellation goes back to the pool (to the counter,
\* or to the first queued waiter).
C8_CancellationReleases ==
    /\ [](\A t \in Callers :
             pc[t] \in {"cancelled", "idle"} =>
                 (t \notin holders /\ ~InQueue(t) /\ t \notin pause_waiters))
    /\ [][\A t \in Callers :
             (pc[t] # "cancelled" /\ pc'[t] = "cancelled" /\ t \in holders)
             => /\ t \notin holders'
                /\ IF sem_waiters = <<>>
                   THEN permits' = permits + 1
                   ELSE permits' = permits /\ Head(sem_waiters) \in holders']_vars

\* C8 witness: a call has been cancelled in its CPU backoff, after it had
\* acquired a unit, and every unit is available.
C8_Witness ==
    /\ \E t \in Callers : pc[t] = "cancelled" /\ throttledCall[t]
    /\ permits = config.max_concurrent_operations

\* C9: total_operations goes up by exactly 1 at the start of every
\* acquire_permit call and at no other step, so that it equals the number
\* of calls started.
C9_TotalCountsAttempts ==
    /\ [](total_operations = callsSinceReset)
    /\ [][/\ total_operations' \in {total_operations, total_operations + 1}
          /\ (total_operations' = total_operations + 1)
             <=> (\E t \in Callers : pc[t] = "idle" /\ pc'[t] # "idle")]_vars

\* C9 witness: two calls have been counted, one rejected for RAM and one
\* cancelled.
C9_Witness ==
    /\ total_operations = 2
    /\ \E t \in Callers : pc[t] = "rejected"
    /\ \E t \in Callers : pc[t] = "cancelled"

\* The first window of a new governor is the one that starts at
\* construction (tick 0); every later window starts at a later tick.
InFirstWindow == io_window_start = 0 /\ config.io_ops_per_second # None

\* C10: in the first window of a governor with limit L, the calls that find
\* the counter below L return without sleeping, the call that finds it at L
\* (the (L+1)-th) sleeps, and a sleeping call does not return before the
\* window has ended, 1 second after io_window_start.
C10_FirstWindow ==
    /\ [](InFirstWindow =>
             /\ \A t \in IoCallers :
                    iopc[t] = "sleeping" => io_ops_count = config.io_ops_per_second + 1
             /\ io_ops_count <= config.io_ops_per_second =>
                    \A t \in IoCallers : ~ioSlept[t]
             /\ io_ops_count > config.io_ops_per_second =>
                    \E t \in IoCallers : iopc[t] = "sleeping")
    /\ [][\A t \in IoCallers :
             /\ (/\ InFirstWindow
                 /\ iopc[t] = "locked"
                 /\ iopc'[t] # "locked"
                 /\ elapsed[t] < Second)
                => IF io_ops_count < config.io_ops_per_second
                   THEN iopc'[t] = "returned" /\ ~ioSlept'[t]
                   ELSE iopc'[t] = "sleeping"
             /\ (iopc[t] = "sleeping" /\ iopc'[t] # "sleeping")
                => (iopc'[t] = "returned" /\ now >= io_window_start + Second)]_vars

\* C10 witness: with a limit of 2, the third call of the first window is
\* sleeping.
C10_Witness ==
    /\ InFirstWindow
    /\ config.io_ops_per_second = 2
    /\ io_ops_count = 3
    /\ \E t \in IoCallers : iopc[t] = "sleeping"

\* C11: a throttle_io call that finds, inside the current window, the op
\* counter at or above io_ops_per_second adds exactly 1 to
\* throttled_operations and sleeps for 1 second minus elapsed, which is
\* greater than 0; nothing else touches throttled_operations, and when the
\* call returns from its sleep io_ops_count is 1 and io_window_start is the
\* time it woke.
C11_ThrottledCall ==
    [][\A t \in IoCallers :
          /\ (iopc[t] = "locked" /\ iopc'[t] # "locked" /\ elapsed[t] < Second
                 /\ io_ops_count >= config.io_ops_per_second)
              => /\ iopc'[t] = "sleeping"
                 /\ throttled_operations' = throttled_operations + 1
                 /\ wake_at'[t] - now = Second - elapsed[t]
                 /\ Second - elapsed[t] > 0
          /\ (iopc[t] = "sleeping" /\ iopc'[t] # "sleeping")
              => /\ iopc'[t] = "returned"
                 /\ now >= wake_at[t]
                 /\ io_ops_count' = 1
                 /\ io_window_start' = now
                 /\ throttled_operations' = throttled_operations
          /\ (iopc[t] = "locked" /\ iopc'[t] = "returned")
              => throttled_operations' = throttled_operations]_vars

\* C11 witness: a call that slept has returned, throttled_operations counts
\* it, and the window it started holds that one call.
C11_Witness ==
    \E t \in IoCallers :
        /\ iopc[t] = "returned"
        /\ ioSlept[t]
        /\ throttled_operations = 1
        /\ io_ops_count = 1
        /\ io_window_start = now

\* C12: a throttle_io call that finds at least 1 second elapsed since
\* io_window_start sets io_ops_count to 0 and io_window_start to the current
\* time and returns, without sleeping and without touching
\* throttled_operations; the counter of the new window does not include the
\* call.
C12_ExpiredWindow ==
    [][\A t \in IoCallers :
          (iopc[t] = "locked" /\ iopc'[t] # "locked" /\ elapsed[t] >= Second)
          => /\ iopc'[t] = "returned"
             /\ ~ioSlept'[t]
             /\ io_ops_count' = 0
             /\ io_window_start' = now
             /\ throttled_operations' = throttled_operations]_vars

\* C12 witness: a call has just reset a window that held counted calls, and
\* has returned without sleeping; the new window's counter is 0.
C12_Witness ==
    \E t \in IoCallers :
        /\ iopc[t] = "returned"
        /\ ~ioSlept[t]
        /\ io_window_start = now
        /\ now >= Second
        /\ io_ops_count = 0
        /\ fastInWindow = 1

\* The calls holding the write guard of io_window_start: between
\* write().await and the end of the `if let` block, the sleep included.
InCriticalSection == {t \in IoCallers : iopc[t] \in {"locked", "sleeping"}}

\* C13: the expiry check, the counter update and the window reset of a
\* throttle_io call run as one mutually exclusive unit.  At most one call is
\* between its expiry check and the end of its update, and it is the holder
\* of the write guard; the elapsed time it decided on is measured from the
\* window start still in force; a call in an unexpired window adds exactly 1
\* to the counter; a window is reset only when it is at least 1 second old
\* at the reset, so one expiry is answered by one reset; and the counter and
\* the window start change in no step taken outside the guard.
C13_CriticalSection ==
    /\ [](/\ Cardinality(InCriticalSection) <= 1
          /\ \A t \in IoCallers : t \in InCriticalSection <=> io_lock = t
          /\ \A t \in IoCallers :
                iopc[t] = "locked" => /\ elapsed[t] >= 0
                                      /\ elapsed[t] <= now - io_window_start)
    /\ [][\A t \in IoCallers :
             /\ (iopc[t] = "locked" /\ iopc'[t] # "locked" /\ elapsed[t] < Second)
                 => io_ops_count' = io_ops_count + 1
             /\ (iopc[t] = "locked" /\ iopc'[t] # "locked" /\ elapsed[t] >= Second)
                 => now - io_window_start >= Second
             /\ InCriticalSection = {}
                 => (io_ops_count' = io_ops_count /\ io_window_start' = io_window_start)]_vars

\* C13 witness: the window has expired, one call holds the guard with the
\* expiry established, and the other call waits for the guard.
C13_Witness ==
    \E t, u \in IoCallers :
        /\ t # u
        /\ iopc[t] = "locked"
        /\ elapsed[t] >= Second
        /\ iopc[u] = "lock_wait"

\* C14 (as claimed): with io_ops_per_second = L, at most L throttle_io calls
\* complete without being delayed in any one window, a window being the
\* interval from one setting of io_window_start to the next.
C14_AtMostLimitPerWindow ==
    config.io_ops_per_second # None => fastInWindow <= config.io_ops_per_second

\* C15: when io_ops_per_second is not configured, a throttle_io call goes
\* from its start straight to its Ok return, never sleeps, and no step of it
\* changes a field of the governor: io_ops_count, io_window_start and its
\* lock, throttled_operations, the configuration and all the admission
\* state stay as they are.
C15_UnlimitedIsNoOp ==
    [][config.io_ops_per_second = None
         => /\ \A t \in IoCallers :
                 /\ (iopc[t] = "idle" /\ iopc'[t] # "idle") => iopc'[t] = "returned"
                 /\ iopc'[t] \in {"idle", "returned"}
                 /\ ~ioSlept'[t]
            /\ UNCHANGED <<config, admVars, throttled_operations, io_ops_count,
                           io_window_start, io_lock>>]_vars

\* C15 witness: no limit is configured, time has passed, and two calls have
\* returned with the counter, the throttle count and the window untouched.
C15_Witness ==
    /\ config.io_ops_per_second = None
    /\ now >= Second
    /\ \A t \in IoCallers : iopc[t] = "returned"
    /\ io_ops_count = 0
    /\ throttled_operations = 0
    /\ io_window_start = 0

\* An acquire_permit call of t is in flight: started and not yet returned or
\* abandoned.
InFlight(t) == pc[t] \notin {"idle", "granted", "rejected", "cancelled"}

\* C16 (as claimed): under fair scheduling, with every granted permit
\* eventually dropped, if the governor is eventually left running for good
\* then every acquire_permit call in flight eventually returns, with a permit
\* or with the RAM rejection (or is abandoned by its caller).
C16_EveryCallReturns ==
    <>[](~is_paused) =>
        \A t \in Callers :
            InFlight(t) ~> pc[t] \in {"granted", "rejected", "cancelled"}

\* Fair scheduling of throttle_io: time passes, a call holding the write
\* guard runs on (and its sleep ends once the deadline is reached), and a
\* call waiting for the guard gets it if the guard is free again and again
\* (tokio's RwLock queues its writers first-in first-out).
FairnessIO ==
    /\ WF_vars(Tick)
    /\ \A t \in IoCallers :
          /\ WF_vars(IoExpired(t) \/ IoCount(t) \/ IoWake(t))
          /\ SF_vars(IoLock(t))

FairSpecIO == SpecIO /\ FairnessIO

\* C17: every throttle_io call eventually returns, and Ok(()) is the only
\* way it returns: a call waiting for the guard, holding it or sleeping
\* eventually reaches its Ok return, whatever the other callers do.
C17_EveryIoCallReturns ==
    \A t \in IoCallers :
        (iopc[t] \in {"lock_wait", "locked", "sleeping"}) ~> (iopc[t] = "returned")

\* C17 witness: a call that was made to sleep has returned while the other
\* caller is still waiting for the guard.
C17_Witness ==
    \E t, u \in IoCallers :
        /\ t # u
        /\ iopc[t] = "returned"
        /\ ioSlept[t]
        /\ iopc[u] = "lock_wait"

\* C18: pause() changes is_paused and nothing else: in the step that pauses
\* the governor the outstanding permits, the available capacity and its
\* queue, total_operations, throttled_operations, the CPU and RAM values,
\* the I/O window and the position of every call stay as they are; and a
\* permit dropped while the governor is paused returns its unit, to the
\* semaphore's counter or to the first waiting call.
C18_PauseFrame ==
    [][/\ (~is_paused /\ is_paused')
          => UNCHANGED <<config, cpu_usage_percent, ram_usage_bytes, total_operations,
                         throttled_operations, semVars, notifyVars, ioVars, pc>>
       /\ (is_paused /\ outstanding' < outstanding)
          => /\ outstanding' = outstanding - 1
             /\ IF sem_waiters = <<>>
                THEN permits' = permits + 1 /\ holders' = holders
                ELSE /\ permits' = permits
                     /\ holders' = holders \cup {Head(sem_waiters)}
                     /\ sem_waiters' = Tail(sem_waiters)]_vars

\* C18 witness: the governor is paused, a permit granted earlier is still
\* outstanding, and a call past the pause step waits for its capacity.
C18_Witness ==
    /\ is_paused
    /\ outstanding = 1
    /\ sem_waiters # <<>>

\* C19: the governor starts Running, and in every state statistics().is_paused
\* is true exactly when the latest of the pause() and resume() calls so far
\* was a pause(); pause() can always be called, and so can resume() (by a
\* task not in the middle of one), so neither state is terminal.
C19_PausedIffLastWasPause ==
    /\ Statistics.is_paused = lastWasPause
    /\ ENABLED Pause
    /\ resume_pc = "idle" => ENABLED ResumeStore

\* C19 witness: the governor is paused again after a pause() and a resume():
\* a call that started under the first pause has seen the resume.
C19_Witness ==
    /\ Statistics.is_paused
    /\ lastWasPause
    /\ \E t \in Callers : startMode[t] = "resumed"

\* C20: cpu_usage_percent is within [0, 100] in every reachable state: it is
\* the minimum of 100 and the value last passed to update_cpu_usage (not a
\* sum with what was there before), and current_cpu_usage() returns it.
C20_CpuClamped ==
    /\ cpu_usage_percent \in 0..100
    /\ cpu_usage_percent = IF lastCpuReport <= 100 THEN lastCpuReport ELSE 100
    /\ CurrentCpuUsage = cpu_usage_percent
    /\ Statistics.current_cpu_usage = cpu_usage_percent

\* C20 witness: update_cpu_usage(150) was the latest report, and
\* current_cpu_usage() returns 100.
C20_Witness ==
    /\ lastCpuReport = 150
    /\ CurrentCpuUsage = 100

\* C21: as long as no running total of the reports has left [0, 2^64),
\* current_ram_usage() is the sum of the bytes reported as allocated minus
\* the sum of the bytes reported as deallocated, in whatever order the
\* reports of the concurrent callers took effect.
C21_RamIsNetOfReports ==
    ramInRange => CurrentRamUsage = ramAllocated - ramDeallocated

\* C21 witness: several allocations and deallocations have been reported,
\* the total stayed in range, and 2 bytes are in use.
C21_Witness ==
    /\ ramInRange
    /\ ramAllocated = 5
    /\ ramDeallocated = 3
    /\ CurrentRamUsage = 2

\* C22: a track_ram_deallocation(b) with b above the tracked usage u takes
\* effect like any other: ram_usage_bytes becomes u - b + 2^64, that is
\* (u - b) mod 2^64, not 0 and not u; and whenever that value is above the
\* configured RAM cap, the RAM test of acquire_permit finds the usage over
\* the cap.
C22_DeallocationUnderflows ==
    [][(ramDeallocated' - ramDeallocated > ram_usage_bytes)
         => /\ ram_usage_bytes' =
                  RamModulus + ram_usage_bytes - (ramDeallocated' - ramDeallocated)
            /\ ram_usage_bytes' > 0
            /\ ram_usage_bytes' # ram_usage_bytes
            /\ (ram_usage_bytes' > config.ram_cap_bytes)
                   => RamOverCap(config, ram_usage_bytes')]_vars

\* C22 witness: more has been deallocated than allocated, and the tracked
\* usage has wrapped to the largest value, above the RAM cap.
C22_Witness ==
    /\ ramAllocated = 0
    /\ ramDeallocated = 1
    /\ ram_usage_bytes = RamModulus - 1
    /\ RamOverCap(config, ram_usage_bytes)

\* C23: reset_statistics() stores 0 in total_operations and then 0 in
\* throttled_operations, and neither store changes cpu_usage_percent,
\* ram_usage_bytes, is_paused, the capacity (available, queued, held,
\* outstanding), the I/O counter and window, or the other counter.
C23_ResetFrame ==
    [][/\ (reset_pc = "idle" /\ reset_pc' = "throttled")
          => /\ total_operations' = 0
             /\ UNCHANGED <<throttled_operations, cpu_usage_percent, ram_usage_bytes,
                            is_paused, semVars, io_ops_count, io_window_start, io_lock>>
       /\ (reset_pc = "throttled" /\ reset_pc' = "idle")
          => /\ throttled_operations' = 0
             /\ UNCHANGED <<total_operations, cpu_usage_percent, ram_usage_bytes,
                            is_paused, semVars, io_ops_count, io_window_start, io_lock>>]_vars

\* C23 witness: a reset_statistics() has completed on a paused governor with
\* a permit outstanding and CPU and RAM usage reported: both counters are 0,
\* the permit, the usage values and the pause are as they were.
C23_Witness ==
    /\ reset_pc = "idle"
    /\ Statistics.total_operations = 0
    /\ Statistics.throttled_operations = 0
    /\ outstanding = 1
    /\ Statistics.current_cpu_usage = 100
    /\ Statistics.current_ram_usage = 1
    /\ Statistics.is_paused

\* C24: total_operations and throttled_operations never decrease except by
\* the two stores of reset_statistics(): every other step leaves each of
\* them as it is or adds 1 to it.
C24_CountersMonotonic ==
    [][/\ (total_operations' # total_operations)
          => \/ total_operations' = total_operations + 1
             \/ reset_pc = "idle" /\ reset_pc' = "throttled" /\ total_operations' = 0
       /\ (throttled_operations' # throttled_operations)
          => \/ throttled_operations' = throttled_operations + 1
             \/ reset_pc = "throttled" /\ reset_pc' = "idle" /\ throttled_operations' = 0]_vars

\* C24 witness: in the middle of a reset_statistics(), total_operations has
\* been counted up again and throttled_operations has not been reset yet.
C24_Witness ==
    /\ reset_pc = "throttled"
    /\ total_operations = MaxCalls
    /\ throttled_operations >= 1

\* C25 (as claimed): ResourceGovernor::new(config) returns Ok exactly when
\* cpu_cap_percent is absent or at most 100 and max_concurrent_operations is
\* at least 1, and returns a Config error for every other config.
C25_NewSucceedsIffValid ==
    newResult # "pending"
        => /\ newResult = "Ok"
                <=> /\ (config.cpu_cap_percent = None \/ config.cpu_cap_percent <= 100)
                    /\ config.max_concurrent_operations >= 1
           /\ newResult # "Ok" => newResult = "Config"

\* C26: in deterministic mode any two generators returned by get_rng(), on
\* the governor, on a clone or on a governor constructed separately from an
\* identical configuration, and whatever was done to the governor before,
\* yield the same sequence: the words drawn from them agree position by
\* position.
C26_DeterministicRng ==
    config.deterministic_mode
        => \A h1, h2 \in Rngs :
              \A i \in 1..MaxDraws :
                  (i <= Len(rngOut[h1]) /\ i <= Len(rngOut[h2]))
                      => rngOut[h1][i] = rngOut[h2][i]

\* C26 witness: in deterministic mode, on a governor that has been reported
\* a CPU usage and paused, two generators have both been drawn in full, and
\* the words differ along the sequence.
C26_Witness ==
    /\ config.deterministic_mode
    /\ Len(rngOut[1]) = MaxDraws
    /\ Len(rngOut[2]) = MaxDraws
    /\ rngOut[1][1] # rngOut[1][2]
    /\ cpu_usage_percent = 100
    /\ is_paused

\* C27 (as claimed): an EncryptionKey never uses a nonce twice: the nonces
\* of the ciphertexts its encrypt calls have returned are pairwise distinct.
C27_NoNonceReuse ==
    \A i, j \in 1..Len(sealed) : i # j => sealed[i].nonce # sealed[j].nonce

\* C28 (as claimed): decrypting a ciphertext that the key produced, with the
\* associated data it was encrypted with, returns the original data,
\* whatever encrypt and decrypt calls came before.
C28_RoundTrip ==
    (lastDecrypt.result # "none" /\ lastDecrypt.aad = lastDecrypt.ciphertext.aad)
        => (lastDecrypt.result = "Ok" /\ lastDecrypt.data = lastDecrypt.ciphertext.data)

\* C29: for every plugin id, get_state returns the state of the latest
\* successful lifecycle call on it (Loaded after register, Ready after
\* initialize, Active after start, Ready after stop, Unloaded after
\* unregister, nothing before the first register); and a lifecycle call
\* that fails, for an unknown id or an error of the plugin's callback,
\* changes neither the recorded states nor the registered plugins.
C29_StateFollowsLifecycle ==
    /\ [](\A id \in PluginIds : GetState(id) = StateAfter(lastOk[id]))
    /\ [][(lastCall'.result # "Ok") => UNCHANGED <<plugins, states>>]_vars

\* C29 witness: a plugin that was registered, initialized, started and
\* stopped is Ready, and the latest call on it, whose callback failed, has
\* left it so.
C29_Witness ==
    \E id \in PluginIds :
        /\ lastOk[id] = "stop"
        /\ GetState(id) = "Ready"
        /\ lastCall = [op |-> "start", id |-> id, result |-> "Callback"]

\* C30: a register call for an id that is registered returns the Validation
\* error and changes neither the registered plugins nor the recorded
\* states.
C30_DuplicateRegistration ==
    [][\A id \in PluginIds :
          (plugins[id] # NoPlugin /\ lastCall' # lastCall
             /\ lastCall'.op = "register" /\ lastCall'.id = id)
          => /\ lastCall'.result = "Validation"
             /\ UNCHANGED <<plugins, states>>]_vars

\* C30 witness: the latest call was a rejected register for the id of a
\* plugin that is Active; the first plugin object is still the one
\* registered.
C30_Witness ==
    \E id \in PluginIds :
        /\ lastCall = [op |-> "register", id |-> id, result |-> "Validation"]
        /\ plugins[id] = 1
        /\ GetState(id) = "Active"

\* C34: whenever the registry records Ready for a plugin id, initialize()
\* of the plugin registered under that id has returned Ok since it was
\* registered.
C34_ReadyImpliesInitialized ==
    \A id \in PluginIds : GetState(id) = "Ready" => initialized[id]

\* C31: concurrent registry calls never deadlock: every call of register,
\* unregister, initialize, start, stop, execute and get_state made by any
\* task eventually returns, given that the tasks are polled and the
\* plugin's callbacks return; and every execute call that finds its
\* plugin registered and whose callback returns Ok returns Ok, however
\* many other calls are in progress.
C31_NoDeadlock ==
    /\ \A t \in Tasks : (rpc[t] # "idle") ~> (rpc[t] = "idle")
    /\ [][\A t \in Tasks :
            (call[t].op = "execute" /\ rpc[t] # "idle" /\ rpc'[t] = "idle"
               /\ plugins[call[t].id] # NoPlugin /\ call[t].ok)
            => callResult'[t] = "Ok"]_vars

\* C31 witness: two execute calls on the registered plugin are in progress
\* at the same time: one is in the plugin's callback with the write lock of
\* plugins, the other is queued for that lock.
C31_Witness ==
    \E t1, t2 \in Tasks :
        /\ rpc[t1] = "callback" /\ call[t1].op = "execute"
        /\ rpc[t2] = "acquiring" /\ call[t2].op = "execute"
        /\ locks["plugins"].writer = t1
        /\ \E i \in 1..Len(locks["plugins"].queue) :
              locks["plugins"].queue[i].task = t2

\* C32: the caps are inclusive.  The CPU check throttles a call (adds 1 to
\* throttled_operations and backs off) exactly when a CPU cap is configured
\* and cpu_usage_percent is strictly greater than it; the RAM check rejects
\* a call exactly when a RAM cap is configured and ram_usage_bytes is
\* strictly greater than it.  A usage equal to its cap, and any usage when
\* the cap is absent, passes the check without throttle or rejection.
C32_CapsInclusive ==
    [][\A t \in Callers :
          /\ (pc[t] = "cpu_check" /\ pc'[t] # "cpu_check")
             => IF config.cpu_cap_percent # None
                   /\ cpu_usage_percent > config.cpu_cap_percent
                THEN /\ pc'[t] = "backoff"
                     /\ throttled_operations' = throttled_operations + 1
                ELSE /\ pc'[t] = "ram_check"
                     /\ throttled_operations' = throttled_operations
          /\ (pc[t] = "ram_check" /\ pc'[t] # "ram_check")
             => IF config.ram_cap_bytes # None
                   /\ ram_usage_bytes > config.ram_cap_bytes
                THEN pc'[t] = "rejected"
                ELSE pc'[t] = "granted"]_vars

\* C32 witness: the only call made so far has been granted, without
\* throttle, on a governor whose CPU and RAM usage both equal their caps.
C32_Witness ==
    \E t \in Callers :
        /\ pc[t] = "granted"
        /\ ~throttledCall[t]
        /\ total_operations = 1
        /\ throttled_operations = 0
        /\ cpu_usage_percent = config.cpu_cap_percent
        /\ ram_usage_bytes = config.ram_cap_bytes

\* C32 witness for absent caps: a call has been granted, without throttle,
\* on a governor with no caps while the CPU usage is 100 and the RAM usage
\* is not 0.
C32_WitnessNoCaps ==
    \E t \in Callers :
        /\ pc[t] = "granted"
        /\ config.cpu_cap_percent = None /\ config.ram_cap_bytes = None
        /\ total_operations = 1
        /\ throttled_operations = 0
        /\ cpu_usage_percent = 100
        /\ ram_usage_bytes > 0

\* The positions of a call before it owns a capacity unit, and the
\* positions of the CPU and RAM checks, where it owns one.
BeforeCapacity == {"pause_check", "pause_register", "pause_wait", "acquire"}

AfterCapacity == {"cpu_check", "backoff", "ram_check"}

\* C33: acquire_permit runs its steps in the order count, pause wait,
\* capacity acquisition, CPU check, RAM check.  Every step of a call goes
\* from one position to the next one in that order; the call is counted by
\* its first step; the CPU and RAM checks are made by a call that owns a
\* capacity unit, the positions before them by a call that owns none; and
\* a call returns the RAM rejection only from the RAM check, with the RAM
\* usage of that moment, so a call that is waiting for a unit is not
\* rejected however far the RAM usage is over the cap.
C33_FixedOrder ==
    /\ [](\A t \in Callers :
             /\ pc[t] \in AfterCapacity => t \in holders
             /\ pc[t] \in BeforeCapacity => t \notin holders /\ ~InQueue(t)
             /\ pc[t] = "sem_wait" => (t \in holders \/ InQueue(t)))
    /\ [][\A t \in Callers :
            /\ (pc[t] = "idle" /\ pc'[t] # "idle")
               => pc'[t] = "pause_check" /\ total_operations' = total_operations + 1
            /\ (pc[t] = "pause_check" /\ pc'[t] # "pause_check")
               => pc'[t] = IF is_paused THEN "pause_register" ELSE "acquire"
            /\ (pc[t] = "pause_register" /\ pc'[t] # "pause_register")
               => pc'[t] = "pause_wait"
            /\ (pc[t] = "pause_wait" /\ pc'[t] # "pause_wait")
               => pc'[t] \in {"pause_check", "cancelled"}
            /\ (pc[t] = "acquire" /\ pc'[t] # "acquire")
               => pc'[t] = IF permits > 0 THEN "cpu_check" ELSE "sem_wait"
            /\ (pc[t] = "sem_wait" /\ pc'[t] # "sem_wait")
               => \/ pc'[t] = "cpu_check" /\ t \in holders
                  \/ pc'[t] = "cancelled"
            /\ (pc[t] = "cpu_check" /\ pc'[t] # "cpu_check")
               => pc'[t] \in {"backoff", "ram_check"}
            /\ (pc[t] = "backoff" /\ pc'[t] # "backoff")
               => pc'[t] \in {"ram_check", "cancelled"}
            /\ (pc[t] = "ram_check" /\ pc'[t] # "ram_check")
               => pc'[t] = IF config.ram_cap_bytes # None
                              /\ ram_usage_bytes > config.ram_cap_bytes
                           THEN "rejected" ELSE "granted"
            /\ (pc'[t] = "rejected" /\ pc[t] # "rejected")
               => pc[t] = "ram_check" /\ t \in holders]_vars

\* C33 witness: every unit is held by a permit, the RAM usage is over the
\* cap, and a call started in that situation is queued for a unit instead
\* of having been rejected.
C33_Witness ==
    \E t \in Callers :
        /\ pc[t] = "sem_wait"
        /\ InQueue(t)
        /\ permits = 0
        /\ outstanding = config.max_concurrent_operations
        /\ config.ram_cap_bytes # None
        /\ ram_usage_bytes > config.ram_cap_bytes

\* C35: the only error acquire_permit returns is the RAM Validation error.
\* No operation of the governor closes the capacity source, so no call
\* ever returns the Concurrency error: a call that leaves the capacity
\* acquisition goes on to the CPU check with a unit (or is cancelled), and
\* a call that has returned was granted a permit or rejected for RAM.
C35_OnlyRamError ==
    /\ [](~sem_closed /\ \A t \in Callers : pc[t] # "failed")
    /\ [][\A t \in Callers :
            (pc[t] \in {"acquire", "sem_wait"} /\ pc'[t] # pc[t])
            => pc'[t] \in {"sem_wait", "cpu_check", "cancelled"}]_vars

\* C35 witness: one call has returned the RAM error and given its unit to
\* a call that was queued on the capacity source, which has gone on with
\* it; both calls have been through the capacity acquisition.
C35_Witness ==
    \E t1, t2 \in Callers :
        /\ pc[t1] = "rejected"
        /\ pc[t2] \in AfterCapacity
        /\ t2 \in holders
        /\ total_operations = 2
        /\ permits = 0

\* The throttle_io calls that are sleeping out the rest of a window.
Sleeping == {t \in IoCallers : iopc[t] = "sleeping"}

\* C36: throttle_io holds the window lock across its sleep.  At most one
\* call is sleeping at any time, and it holds the write guard; while it
\* sleeps no other call gets the guard, changes the counter or the window,
\* or returns from a call started during the sleep: the others stay where
\* they wait for the guard.  The step that ends the sleep starts the fresh
\* window and only then is the guard free.
C36_LockHeldAcrossSleep ==
    /\ [](/\ Cardinality(Sleeping) <= 1
          /\ \A t \in Sleeping : io_lock = t
          /\ \A t \in Sleeping : \A u \in IoCallers \ {t} :
                iopc[u] \in {"idle", "lock_wait", "returned"})
    /\ [][\A t \in Sleeping :
            /\ \A u \in IoCallers \ {t} :
                  iopc[u] = "lock_wait" => iopc'[u] = "lock_wait"
            /\ iopc'[t] = "sleeping"
               => /\ io_lock' = t
                  /\ io_ops_count' = io_ops_count
                  /\ io_window_start' = io_window_start
            /\ iopc'[t] # "sleeping"
               => /\ now >= wake_at[t]
                  /\ io_window_start' = now
                  /\ io_ops_count' = 1
                  /\ io_lock' = 0]_vars

\* C36 witness: one call is asleep before its deadline with the guard, and
\* the other call, started meanwhile, waits for the guard.
C36_Witness ==
    \E t, u \in IoCallers :
        /\ t # u
        /\ iopc[t] = "sleeping"
        /\ now < wake_at[t]
        /\ io_lock = t
        /\ iopc[u] = "lock_wait"

\* The steps of throttle_io calls: a call starts, goes on or returns.
IoCallMoves == \E t \in IoCallers : iopc'[t] # iopc[t]

\* C37: throttle_io is independent of admission.  No step of a throttle_io
\* call changes total_operations, is_paused, the CPU or RAM values, the
\* available capacity, its queue and holders, or the position of an
\* acquire_permit call; and a throttle_io call waits neither for resume()
\* nor for a capacity unit: once started it returns, also when the
\* governor stays paused and every unit stays held for ever.
C37_IoIndependentOfAdmission ==
    /\ [][IoCallMoves =>
            UNCHANGED <<total_operations, is_paused, cpu_usage_percent,
                        ram_usage_bytes, permits, sem_waiters, holders,
                        outstanding, pause_waiters, woken, pc>>]_vars
    /\ \A t \in MixedIoCallers :
          (iopc[t] \notin {"idle", "returned"}) ~> (iopc[t] = "returned")

\* C37 witness: the governor is paused with an acquire_permit call waiting
\* for resume(), its only unit is held by a permit, CPU and RAM usage have
\* been reported, and a throttle_io call that was throttled has returned.
C37_Witness ==
    \E t \in MixedIoCallers :
        /\ iopc[t] = "returned"
        /\ ioSlept[t]
        /\ is_paused
        /\ permits = 0
        /\ outstanding = 1
        /\ \E c \in Callers : pc[c] = "pause_wait"
        /\ cpu_usage_percent = 100
        /\ ram_usage_bytes > 0

\* C38: on a governor with no I/O limit on which reset_statistics is never
\* called, throttled_operations is at most total_operations in every
\* reachable state: throttled_operations goes up by 1 at a time, only in
\* the CPU check of a call that has been counted in total_operations and
\* has not been throttled before, and neither counter ever goes down.
C38_ThrottledAtMostTotal ==
    /\ [](throttled_operations <= total_operations)
    /\ [][/\ total_operations' >= total_operations
          /\ throttled_operations' >= throttled_operations
          /\ throttled_operations' # throttled_operations
             => /\ throttled_operations' = throttled_operations + 1
                /\ total_operations' = total_operations
                /\ \E t \in Callers :
                      /\ pc[t] = "cpu_check"
                      /\ ~throttledCall[t]
                      /\ throttledCall'[t]]_vars

\* C38 witness: every call made so far has been throttled, so the two
\* counters are equal, at 2.
C38_Witness ==
    /\ config.io_ops_per_second = None
    /\ total_operations = 2
    /\ throttled_operations = 2

====
